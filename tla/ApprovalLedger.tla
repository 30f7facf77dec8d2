--------------------------- MODULE ApprovalLedger ---------------------------
(***************************************************************************)
(* What the approvals API promises, with every request atomic: approvals   *)
(* are filed against a set of tasks, decided and reopened, and disappear   *)
(* with the last task they name.  A task of a board is named by at most    *)
(* one pending approval of that board.                                     *)
(***************************************************************************)
CONSTANTS Tasks, Approvals, Decisions, Boards, BoardOf

VARIABLES status,   \* status[a]: "unborn" before the row exists, "deleted" after
          links     \* links[a]: the tasks approval a names

ledger == <<status, links>>

Statuses == Decisions \cup {"pending"}

Init == /\ status = [a \in Approvals |-> "unborn"]
        /\ links = [a \in Approvals |-> {}]

\* A pending approval of a's board, other than a, names one of the tasks ts.
Taken(a, ts) ==
    \E b \in Approvals \ {a} : /\ BoardOf[b] = BoardOf[a]
                               /\ status[b] = "pending"
                               /\ links[b] \cap ts # {}

File(a, ts, s) ==
    /\ status[a] = "unborn"
    /\ s = "pending" => ~Taken(a, ts)
    /\ status' = [status EXCEPT ![a] = s]
    /\ links' = [links EXCEPT ![a] = ts]

Decide(a, s) ==
    /\ status[a] \in Statuses
    /\ s = "pending" /\ status[a] # "pending" => ~Taken(a, links[a])
    /\ status' = [status EXCEPT ![a] = s]
    /\ UNCHANGED links

\* Deleting task t removes exactly the approvals that named nothing else.
Forget(t) ==
    /\ status' = [a \in Approvals |-> IF links[a] = {t} THEN "deleted" ELSE status[a]]
    /\ links' = [a \in Approvals |-> links[a] \ {t}]

Next == \/ \E a \in Approvals, ts \in SUBSET Tasks, s \in Statuses : File(a, ts, s)
        \/ \E a \in Approvals, s \in Statuses : Decide(a, s)
        \/ \E t \in Tasks : Forget(t)

Spec == Init /\ [][Next]_ledger
=============================================================================
