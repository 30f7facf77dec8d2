--------------------------- MODULE OnboardingProofs --------------------------
(***************************************************************************)
(* Proofs about Onboarding, for any number of requests and polls: the      *)
(* types, and for dialogs that did not go rough, with an agent that only   *)
(* replies, that the agent is told one answer to each message and that     *)
(* what is confirmed is what was shown.                                    *)
(***************************************************************************)
EXTENDS Onboarding, NaturalsInduction, WellFoundedInduction, SequenceTheorems, TLAPS

-----------------------------------------------------------------------------
(* Lists of messages *)

\* The replies in a list.
Replies(m) == {x \in Calls : \E i \in DOMAIN m : m[i] = By("agent", x)}

\* A set of numbers up to a bound has a greatest one.
LEMMA MaxIs ==
    ASSUME NEW n \in Nat, NEW S \in SUBSET (0..n), S # {}
    PROVE  Max(S) \in S /\ \A y \in S : Max(S) >= y
<1> DEFINE T == {n - y : y \in S}
<1>1. PICK R : IsWellFoundedOn(R, Nat) /\ R = {p \in Nat \X Nat : p[1] < p[2]}
  <2>1. OpToRel(<, Nat) = {p \in Nat \X Nat : p[1] < p[2]}
    BY DEF OpToRel
  <2> QED
    BY <2>1, NatLessThanWellFounded
<1>2. T \in SUBSET Nat /\ T # {}
  <2>1. \A y \in S : y \in Nat /\ n - y \in Nat
    OBVIOUS
  <2> QED
    BY <2>1
<1>3. PICK x \in T : \A y \in T : ~ (<<y, x>> \in R)
  BY <1>1, <1>2, WFMin
<1>4. PICK b \in S : x = n - b
  BY <1>3
<1>5. ASSUME NEW y \in S PROVE b >= y
  <2>1. n - y \in T /\ n - y \in Nat /\ x \in Nat
    BY <1>2
  <2>2. n - y < x => <<n - y, x>> \in R
    BY <2>1, <1>1
  <2>3. ~(n - y < n - b)
    BY <1>3, <1>4, <2>1, <2>2
  <2> QED
    BY <2>3
<1> QED
  BY <1>5 DEF Max

\* The position of the agent's last message.
LEMMA LastAgentIs ==
    ASSUME NEW m \in Seq(Entry)
    PROVE  /\ LastAgent(m) = None <=> Replies(m) = {}
           /\ LastAgent(m) \in Replies(m) \cup {None}
           /\ \A i \in DOMAIN m : m[i].by = "agent" /\ (\A j \in DOMAIN m : m[j].by = "agent" => j <= i) => LastAgent(m) = m[i].of
           /\ Replies(m) # {} => \E i \in DOMAIN m : /\ m[i] = By("agent", LastAgent(m))
                                                    /\ \A j \in DOMAIN m : m[j].by = "agent" => j <= i
<1> DEFINE at == {i \in DOMAIN m : m[i].by = "agent"}
<1>1. PICK n \in Nat : n = Len(m) /\ DOMAIN m = 1..n
  BY LenProperties
<1>2. \A i \in DOMAIN m : m[i] \in Entry
  BY ElementOfSeq, <1>1
<1>3. \A i \in DOMAIN m : m[i].of \in Calls /\ (m[i].by = "agent" => m[i] = By("agent", m[i].of))
  BY <1>2 DEF Entry, By
<1>4. \A x, i : m[i] = By("agent", x) => m[i].by = "agent" /\ m[i].of = x
  BY DEF By
<1>5. at = {} <=> Replies(m) = {}
  BY <1>3, <1>4 DEF Replies
<1>6. CASE at = {}
  <2>1. LastAgent(m) = None
    BY <1>6 DEF LastAgent
  <2> QED
    BY <1>5, <1>6, <2>1
<1>7. CASE at # {}
  <2>1. at \in SUBSET (0..n)
    BY <1>1
  <2>2. Max(at) \in at /\ \A j \in at : Max(at) >= j
    BY <1>7, <2>1, MaxIs
  <2>3. PICK k : k = Max(at)
    OBVIOUS
  <2>4. LastAgent(m) = m[k].of
    BY <1>7, <2>3 DEF LastAgent
  <2>5. k \in DOMAIN m /\ m[k].by = "agent" /\ k \in Nat /\ \A j \in DOMAIN m : m[j].by = "agent" => j <= k
    BY <2>2, <2>3, <1>1
  <2>6. m[k].of \in Replies(m) /\ m[k] = By("agent", m[k].of)
    BY <2>5, <1>3 DEF Replies
  <2>7. LastAgent(m) # None
    BY <2>4, <2>6, OnboardingAssumption DEF Replies
  <2>8. ASSUME NEW i \in DOMAIN m, m[i].by = "agent", \A j \in DOMAIN m : m[j].by = "agent" => j <= i
        PROVE  LastAgent(m) = m[i].of
    <3>1. k <= i /\ i <= k /\ i \in Nat
      BY <2>5, <2>8, <1>1
    <3> QED
      BY <3>1, <2>4, <2>5
  <2> QED
    BY <2>4, <2>5, <2>6, <2>7, <2>8
<1> QED
  BY <1>6, <1>7

\* The empty list has no message of the agent.
LEMMA NoMessages ==
    /\ <<>> \in Seq(Entry) /\ Replies(<<>>) = {} /\ LastAgent(<<>>) = None
    /\ \A r \in Calls : LET m == <<By("user", r)>>
                        IN  m \in Seq(Entry) /\ m # <<>> /\ Replies(m) = {} /\ LastAgent(m) = None /\ Last(m) = By("user", r)
<1>1. <<>> \in Seq(Entry) /\ Replies(<<>>) = {} /\ LastAgent(<<>>) = None
  BY DEF Replies, LastAgent
<1>2. ASSUME NEW r \in Calls, NEW m, m = <<By("user", r)>>
      PROVE  m \in Seq(Entry) /\ m # <<>> /\ Replies(m) = {} /\ LastAgent(m) = None /\ Last(m) = By("user", r)
  <2>1. By("user", r) \in Entry /\ By("user", r).by = "user"
    BY DEF By, Entry
  <2>2. m \in Seq(Entry) /\ Len(m) = 1 /\ DOMAIN m = 1..1 /\ m[1] = By("user", r)
    BY <1>2, <2>1
  <2>3. Replies(m) = {}
    BY <2>1, <2>2 DEF Replies, By
  <2> QED
    BY <2>2, <2>3, LastAgentIs DEF Last
<1> QED
  BY <1>1, <1>2

\* A message at the end of a list.
LEMMA AppendIs ==
    ASSUME NEW m \in Seq(Entry), NEW r \in Calls, NEW who \in {"user", "agent"}
    PROVE  /\ Append(m, By(who, r)) \in Seq(Entry) /\ Append(m, By(who, r)) # <<>>
           /\ Last(Append(m, By(who, r))) = By(who, r)
           /\ who = "agent" => /\ Replies(Append(m, By(who, r))) = Replies(m) \cup {r}
                               /\ LastAgent(Append(m, By(who, r))) = r
           /\ who = "user" => /\ Replies(Append(m, By(who, r))) = Replies(m)
                              /\ LastAgent(Append(m, By(who, r))) = LastAgent(m)
<1>0. PICK l : l = Append(m, By(who, r))
  OBVIOUS
<1>1. PICK n \in Nat : n = Len(m) /\ DOMAIN m = 1..n
  BY LenProperties
<1>2. By(who, r) \in Entry /\ By(who, r).by = who /\ By(who, r).of = r
  BY DEF By, Entry
<1>3. l \in Seq(Entry) /\ Len(l) = n + 1 /\ DOMAIN l = 1..(n + 1)
  BY <1>0, <1>1, <1>2, AppendProperties, LenProperties
<1>4. l[n + 1] = By(who, r) /\ \A i \in 1..n : l[i] = m[i]
  BY <1>0, <1>1, <1>2, AppendProperties
<1>5. l # <<>> /\ Last(l) = By(who, r)
  BY <1>3, <1>4 DEF Last
<1>6. \A i \in DOMAIN l : i = n + 1 \/ (i \in DOMAIN m /\ l[i] = m[i])
  BY <1>1, <1>3, <1>4
<1>7. \A i \in DOMAIN m : i \in DOMAIN l /\ l[i] = m[i]
  BY <1>1, <1>3, <1>4
<1>8. n + 1 \in DOMAIN l
  BY <1>3
<1>9. \A x, y : By("agent", x) = By("agent", y) => x = y
  <2>1. \A x : By("agent", x).of = x
    BY DEF By
  <2> QED
    BY <2>1
<1>10. CASE who = "agent"
  <2>1. Replies(l) = Replies(m) \cup {r}
    <3>1. ASSUME NEW x \in Replies(l) PROVE x \in Replies(m) \cup {r}
      BY <3>1, <1>4, <1>6, <1>9, <1>10 DEF Replies
    <3>2. Replies(m) \subseteq Replies(l)
      BY <1>7 DEF Replies
    <3>3. r \in Replies(l)
      BY <1>4, <1>8, <1>10 DEF Replies
    <3> QED
      BY <3>1, <3>2, <3>3
  <2>2. \A j \in DOMAIN l : j <= n + 1
    BY <1>3
  <2>3. LastAgent(l) = r
    BY <1>2, <1>3, <1>4, <1>8, <1>10, <2>2, LastAgentIs
  <2> QED
    BY <1>0, <1>3, <1>5, <1>10, <2>1, <2>3
<1>11. CASE who = "user"
  <2>1. l[n + 1].by # "agent" /\ \A x : l[n + 1] # By("agent", x)
    <3>1. l[n + 1].by = "user"
      BY <1>2, <1>4, <1>11
    <3>2. \A x : By("agent", x).by = "agent"
      BY DEF By
    <3> QED
      BY <3>1, <3>2
  <2>2. Replies(l) = Replies(m)
    BY <2>1, <1>6, <1>7 DEF Replies
  <2>3. LastAgent(l) = LastAgent(m)
    <3>1. CASE Replies(m) = {}
      BY <3>1, <2>2, <1>3, LastAgentIs
    <3>2. CASE Replies(m) # {}
      <4>1. PICK i \in DOMAIN m : /\ m[i] = By("agent", LastAgent(m))
                                  /\ \A j \in DOMAIN m : m[j].by = "agent" => j <= i
        BY <3>2, LastAgentIs
      <4>2. i \in DOMAIN l /\ l[i].by = "agent" /\ l[i].of = LastAgent(m)
        BY <4>1, <1>7 DEF By
      <4>3. \A j \in DOMAIN l : l[j].by = "agent" => j <= i
        BY <4>1, <1>6, <2>1
      <4> QED
        BY <1>3, <4>2, <4>3, LastAgentIs
    <3> QED
      BY <3>1, <3>2
  <2> QED
    BY <1>0, <1>3, <1>5, <1>11, <2>2, <2>3
<1> QED
  BY <1>10, <1>11

\* A reply at the end is the last message of the agent.
LEMMA AgentAppends ==
    ASSUME NEW m \in Seq(Entry), NEW r \in Calls, NEW l, l = Append(m, By("agent", r))
    PROVE  Last(l) = By("agent", r) /\ Replies(l) = Replies(m) \cup {r} /\ LastAgent(l) = r
<1>1. PICK who \in {"user", "agent"} : who = "agent"
  OBVIOUS
<1>2. l = Append(m, By(who, r))
  BY <1>1
<1>3. /\ Last(l) = By(who, r)
      /\ who = "agent" => Replies(l) = Replies(m) \cup {r} /\ LastAgent(l) = r
  BY <1>2, AppendIs
<1> QED
  BY <1>1, <1>3

\* A message of the user at the end leaves the agent's as they are.
LEMMA UserAppends ==
    ASSUME NEW m \in Seq(Entry), NEW r \in Calls, NEW l, l = Append(m, By("user", r))
    PROVE  Last(l) = By("user", r) /\ Replies(l) = Replies(m) /\ LastAgent(l) = LastAgent(m)
<1>1. PICK who \in {"user", "agent"} : who = "user"
  OBVIOUS
<1>2. l = Append(m, By(who, r))
  BY <1>1
<1>3. /\ Last(l) = By(who, r)
      /\ who = "user" => Replies(l) = Replies(m) /\ LastAgent(l) = LastAgent(m)
  BY <1>2, AppendIs
<1> QED
  BY <1>1, <1>3

-----------------------------------------------------------------------------
(* The invariant of every dialog *)

NoReading == [s |-> NoSession, n |-> 0]
Running(r) == call[r].pc \in {"send", "store", "refresh", "answered"}
Told(r) == reply[r].pc # "none"

\* The messages the agent has and has not replied to.
Out == {r \in Calls : reply[r].pc \in {"told", "store"}}

CallFits(r) ==
    /\ call[r].pc \in {"new", "send"} => reply[r].pc = "none"
    /\ call[r].kind = "confirm" => reply[r].pc = "none" /\ call[r].pc \notin {"new", "send", "refresh"}
    /\ call[r].pc \in {"store", "refresh"} /\ call[r].kind # "confirm" => reply[r].pc # "none"
    /\ call[r].pc = "answered" /\ call[r].kind = "answer" => reply[r].pc # "none"
    /\ call[r].msgs # <<>> => call[r].kind = "answer" /\ call[r].pc \in {"send", "store"}
    /\ Running(r) =>
          /\ call[r].sid = None => call[r].kind = "start" /\ call[r].pc \in {"send", "store"}
          /\ call[r].sid # None => sess[call[r].sid].status # "none"
    /\ call[r].kind = "confirm" /\ call[r].pc = "store" =>
          call[r].about # None /\ call[r].got.n <= rev /\ call[r].got.s.status # "none"
    /\ call[r].kind = "confirm" /\ call[r].pc = "answered" => board.goal # None
    /\ call[r].pc = "answered" => call[r].got.n <= rev /\ call[r].got.s.status # "none"
    /\ call[r].kind = "answer" /\ call[r].pc \in {"send", "store"} => call[r].msgs # <<>>
    /\ call[r].pc = "new" \/ (call[r].pc \in {"send", "store"} /\ call[r].sid = None) => sess[r].status = "none"

CallShape == \A r \in Calls : CallFits(r)

ReplyFits(r) ==
    /\ reply[r].pc # "store" => reply[r].msgs = <<>>
    /\ reply[r].pc = "store" =>
          /\ reply[r].sid # None /\ sess[reply[r].sid].status # "none"
          /\ reply[r].status = "completed" => sess[reply[r].sid].status # "active"
    /\ reply[r].pc = "refused" => board.goal # None

ReplyShape == \A r \in Calls : ReplyFits(r)

SessShape ==
    /\ \A i \in Calls :
          /\ sess[i].status = "none" <=> sess[i].msgs = <<>>
          /\ sess[i].draft # None => sess[i].status \notin {"none", "active"}
          /\ sess[i].status = "confirmed" => board.goal # None
          /\ sess[i].status # "none" => newest # None
    /\ newest # None => sess[newest].status # "none"

PageShape ==
    /\ ~page.open => page = Closed
    /\ page.awaiting # None => LastAgent(page.view.msgs) = page.awaiting
    /\ page.view = NoSession => page.n = 0
    /\ page.view # NoSession \/ gets # {} => newest # None
    /\ page.n <= rev
    /\ \A r \in Calls : page.cur = r =>
          call[r].pc \notin {"new", "ok"} /\ (call[r].kind # "confirm" => page.awaiting = None)
    /\ \A g \in gets : g.n <= rev /\ g.s.status # "none" /\ (g.n = rev => g.s = sess[newest])

\* Only what was stored is in a list.
Stored ==
    \A x, r \in Calls :
        x \in Replies(sess[r].msgs) \cup Replies(call[r].msgs) \cup Replies(reply[r].msgs) => reply[x].pc = "ok"

Shape == CallShape /\ ReplyShape /\ SessShape /\ PageShape /\ Stored

\* What is in some list.
Kept(x) == \E r \in Calls : x \in Replies(sess[r].msgs) \cup Replies(call[r].msgs) \cup Replies(reply[r].msgs)

\* A dialog that went rough, lost a reply for good, or got an update nobody asked for.
Broken == rough \/ unasked \/ \E x \in Calls : reply[x].pc = "ok" /\ ~Kept(x)

-----------------------------------------------------------------------------
(* The invariant of the dialogs that are not broken *)

Latest(i) == LastAgent(sess[i].msgs)
Has(i) == Replies(sess[i].msgs)

\* One request at a time, one message at a time.
Turns ==
    /\ \A r \in Calls : Running(r) => page.open /\ page.cur = r
    /\ \A r \in Calls : page.cur = r => Out \subseteq {r} /\ (~Told(r) => Out = {})
    /\ \A q, r \in Out : q = r
    /\ ~page.open => Out = {} /\ (gets = {} \/ board.goal # None)
    /\ \A r \in Calls : call[r].pc = "failed" => ~Told(r)

\* A session that ends with a message of the user has none of the agent, or waits for it.
AskedIn(i) ==
    sess[i].status # "none" /\ Last(sess[i].msgs).by = "user" =>
        LET a == Last(sess[i].msgs).of
        IN  \/ Latest(i) = None
            \/ call[a].kind = "answer" /\ (reply[a].pc = "refused" \/ (a \in Out /\ i = newest))

\* The sessions: each reply is in one of them, and the one that waits for the agent
\* is the newest.
Threads ==
    /\ \A i, k \in Calls : i # k => Has(i) \cap Has(k) = {}
    /\ \A i, k \in Active : i = k
    /\ \A i \in Active : Latest(i) # None => newest = i
    /\ \A i \in Calls : Latest(i) = None => sess[i].draft = None
    /\ \A i \in Calls : AskedIn(i)

\* What the handlers have copied.
AnswerCopy(r) ==
    LET i == call[r].sid
        m == call[r].msgs
    IN  /\ i = newest /\ Last(m) = By("user", r) /\ LastAgent(m) = call[r].about
        /\ Replies(m) = Has(i) \ {r}
        /\ IF reply[r].pc = "ok" THEN r \in Has(i) ELSE Latest(i) = call[r].about

ReplyCopy(r) ==
    LET i == reply[r].sid
    IN  /\ Replies(reply[r].msgs) = Has(i)
        /\ i # newest => Latest(newest) = None /\ call[r].kind # "answer"

StartCopy(r) ==
    LET i == call[r].sid
    IN  IF i = None THEN Active = {} ELSE Active \subseteq {i} /\ (Latest(i) = None \/ reply[r].pc = "ok")

Copies ==
    /\ \A r \in Calls : call[r].kind = "answer" /\ call[r].pc \in {"send", "store"} => AnswerCopy(r)
    /\ \A r \in Calls : reply[r].pc = "store" => ReplyCopy(r)
    /\ \A r \in Calls : call[r].kind = "start" /\ call[r].pc \in {"send", "store"} => StartCopy(r)
    /\ \A r \in Out : call[r].kind = "answer" => Latest(newest) = call[r].about

\* A reading a page could wait with, and one that is up to date.
Waits(s, aw) == LastAgent(s.msgs) = aw /\ (aw = None => s.draft = None)
UpTo(s) == LastAgent(s.msgs) = Latest(newest) /\ s.draft = sess[newest].draft
Sound(s, aw) == Waits(s, aw) \/ (Out = {} /\ UpTo(s))

\* A page that shows the reading s as of n and waits for what follows aw: nothing it
\* will be shown lets it answer before the agent is done.
Settled(s, n, aw) ==
    /\ Sound(s, aw)
    /\ \A g \in gets : g.n >= n =>
          /\ Sound(g.s, aw)
          /\ ~Waits(s, aw) => UpTo(g.s)
          /\ ~Waits(g.s, aw) => \A h \in gets : g.n <= h.n => UpTo(h.s)
    /\ Out # {} => Waits(sess[newest], aw)

Refreshing(r) ==
    LET i == call[r].sid
    IN  /\ Waits(sess[i], Awaited(r)) \/ (Out = {} /\ i = newest)
        /\ Out # {} \/ call[r].kind = "answer" => i = newest

Views ==
    /\ page.open /\ (\A r \in Calls : page.cur = r => ~Told(r)) => Settled(page.view, page.n, page.awaiting)
    /\ \A r \in Calls : page.cur = r /\ call[r].kind = "start" /\ ~Told(r) =>
          /\ \A g \in gets : UpTo(g.s)
          /\ call[r].pc = "answered" => UpTo(call[r].got.s)
    /\ \A r \in Calls : call[r].pc = "answered" /\ Told(r) => Settled(call[r].got.s, call[r].got.n, Awaited(r))
    /\ \A r \in Calls : call[r].pc = "refresh" => Refreshing(r)

\* An answer is to a message that was stored.
OfStored == \A r \in Calls : call[r].kind = "answer" => call[r].about # None /\ reply[call[r].about].pc = "ok"

\* What is about to be told is not about a message that was answered.
Fresh ==
    \A r, q \in Calls : call[r].kind = "answer" /\ call[r].pc = "send" /\ call[q].kind = "answer" /\ Told(q) =>
        call[q].about # call[r].about

\* What was answered and replied to is the last word of no session any more.
MovedOn == \A q, i \in Calls : call[q].kind = "answer" /\ reply[q].pc = "ok" => Latest(i) # call[q].about

\* An answer that was refused leaves the page waiting.
Refused ==
    \A q \in Calls : call[q].kind = "answer" /\ reply[q].pc = "refused" =>
        /\ Latest(newest) = call[q].about /\ Out = {}
        /\ page.open => page.cur = q \/ (page.cur = None /\ page.awaiting = call[q].about)

\* No message of the agent is answered twice.
Distinct ==
    \A q, r \in Calls : call[q].kind = "answer" /\ Told(q) /\ call[r].kind = "answer" /\ Told(r) =>
        (call[q].about = call[r].about => q = r)

Once == OfStored /\ Fresh /\ MovedOn /\ Refused /\ Distinct

Agreed ==
    /\ \A r \in Calls : call[r].kind = "confirm" /\ call[r].pc = "store" =>
          call[r].about = call[r].got.s.draft /\ call[r].sid = newest
    /\ board.goal # None => board.goal = board.lead

Sane == Turns /\ Threads /\ Copies /\ Views /\ Once /\ Agreed

-----------------------------------------------------------------------------
(* What the actions do *)

CallIs(r, kind, pc, sid, msgs, about, got) ==
    /\ call'[r].kind = kind /\ call'[r].pc = pc /\ call'[r].sid = sid
    /\ call'[r].msgs = msgs /\ call'[r].about = about /\ call'[r].got = got
    /\ \A q \in Calls : q # r => call'[q] = call[q]
ReplyIs(r, pc, kind, sid, msgs, status) ==
    /\ reply'[r].pc = pc /\ reply'[r].kind = kind /\ reply'[r].sid = sid
    /\ reply'[r].msgs = msgs /\ reply'[r].status = status
    /\ \A q \in Calls : q # r => reply'[q] = reply[q]
SessIs(i, status, msgs, draft) ==
    /\ i \in Calls /\ sess'[i].status = status /\ sess'[i].msgs = msgs /\ sess'[i].draft = draft
    /\ \A k \in Calls : k # i => sess'[k] = sess[k]
    /\ newest' = i /\ rev' = rev + 1
PageIs(open, view, n, cur, awaiting) ==
    /\ page'.open = open /\ page'.view = view /\ page'.n = n
    /\ page'.cur = cur /\ page'.awaiting = awaiting

\* The same request at another place.
Goes(r, pc) == CallIs(r, call[r].kind, pc, call[r].sid, call[r].msgs, call[r].about, call[r].got)
Ended(r, pc) == CallIs(r, call[r].kind, pc, None, <<>>, call[r].about, NoReading)
Hears(r) == ReplyIs(r, "told", reply[r].kind, reply[r].sid, reply[r].msgs, reply[r].status)

\* What the type invariant says of each variable, for later use.
LEMMA Types ==
    ASSUME TypeOK
    PROVE  /\ \A r \in Calls : call[r] \in CallState /\ call[r].msgs \in Seq(Entry) /\ call[r].got \in Reading
                               /\ call[r].about \in Calls \cup {None} /\ call[r].sid \in Calls \cup {None} /\ call[r].got.s \in Session
                               /\ call[r].got.n \in Nat
           /\ \A r \in Calls : reply[r] \in ReplyState /\ reply[r].msgs \in Seq(Entry) /\ reply[r].sid \in Calls \cup {None}
           /\ \A i \in Calls : sess[i] \in Session /\ sess[i].msgs \in Seq(Entry) /\ sess[i].draft \in Calls \cup {None}
           /\ page.view \in Session /\ page.n \in Nat /\ page.cur \in Calls \cup {None} /\ page.awaiting \in Calls \cup {None}
           /\ page.view.msgs \in Seq(Entry) /\ page.view.draft \in Calls \cup {None}
           /\ NoSession \in Session /\ NoReading \in Reading /\ NewCall \in CallState /\ NoReply \in ReplyState /\ Closed \in PageState
           /\ rev \in Nat /\ newest \in Calls \cup {None}
<1>1. NoSession \in Session /\ NoReading \in Reading
  BY NoMessages DEF NoSession, Session, NoReading, Reading
<1>2. NewCall \in CallState /\ NoReply \in ReplyState /\ Closed \in PageState
  BY <1>1, NoMessages DEF NewCall, CallState, NoReply, ReplyState, Closed, PageState, NoReading
<1>3. \A r \in Calls : call[r] \in CallState /\ reply[r] \in ReplyState /\ sess[r] \in Session
  BY DEF TypeOK
<1>4. page \in PageState /\ rev \in Nat /\ newest \in Calls \cup {None}
  BY DEF TypeOK
<1>5. \A c \in CallState : c.msgs \in Seq(Entry) /\ c.got \in Reading /\ c.about \in Calls \cup {None} /\ c.sid \in Calls \cup {None}
  BY DEF CallState
<1>6. \A g \in Reading : g.s \in Session /\ g.n \in Nat
  BY DEF Reading
<1>7. \A c \in ReplyState : c.msgs \in Seq(Entry) /\ c.sid \in Calls \cup {None}
  BY DEF ReplyState
<1>8. \A c \in Session : c.msgs \in Seq(Entry) /\ c.draft \in Calls \cup {None}
  BY DEF Session
<1>9. page.view \in Session /\ page.n \in Nat /\ page.cur \in Calls \cup {None} /\ page.awaiting \in Calls \cup {None}
  BY <1>4 DEF PageState
<1> QED
  BY <1>1, <1>2, <1>3, <1>4, <1>5, <1>6, <1>7, <1>8, <1>9

\* Step, field by field.
LEMMA StepIs ==
    ASSUME TypeOK, NEW r \in Calls, NEW pc \in {"store", "answered"}, Step(r, pc)
    PROVE  Goes(r, pc) /\ call' \in [Calls -> CallState]
<1>1. call \in [Calls -> CallState] /\ call[r] \in CallState
  BY DEF TypeOK
<1>2. call' = [call EXCEPT ![r] = [call[r] EXCEPT !.pc = pc]]
  BY <1>1 DEF Step
<1>3. [call[r] EXCEPT !.pc = pc] \in CallState
  BY <1>1 DEF CallState
<1>4. Goes(r, pc)
  BY <1>1, <1>2 DEF Goes, CallIs, CallState
<1> QED
  BY <1>1, <1>2, <1>3, <1>4

\* Ends, field by field.
LEMMA EndsIs ==
    ASSUME TypeOK, NEW r \in Calls, NEW pc \in {"ok", "failed"}, Ends(r, pc)
    PROVE  Ended(r, pc) /\ call' \in [Calls -> CallState]
<1>1. call \in [Calls -> CallState] /\ call[r] \in CallState /\ NewCall \in CallState
  BY Types DEF TypeOK
<1>2. call[r].kind \in {"start", "answer", "confirm"} /\ call[r].about \in Calls \cup {None}
  BY <1>1 DEF CallState
<1>3. [NewCall EXCEPT !.pc = pc, !.kind = call[r].kind, !.about = call[r].about] \in CallState
  BY <1>1, <1>2 DEF CallState
<1>4. call' \in [Calls -> CallState]
  BY <1>1, <1>3 DEF Ends
<1>5. Ended(r, pc)
  BY <1>1 DEF Ends, Ended, CallIs, NewCall, NoReading
<1> QED
  BY <1>4, <1>5

\* Tell, field by field.
LEMMA TellIs ==
    ASSUME TypeOK, NEW r \in Calls, Tell(r)
    PROVE  Hears(r) /\ reply' \in [Calls -> ReplyState]
<1>1. reply \in [Calls -> ReplyState] /\ reply[r] \in ReplyState
  BY DEF TypeOK
<1>2. PICK c : c = [reply[r] EXCEPT !.pc = "told"]
  OBVIOUS
<1>3. /\ c \in ReplyState /\ c.pc = "told" /\ c.kind = reply[r].kind /\ c.sid = reply[r].sid
      /\ c.msgs = reply[r].msgs /\ c.status = reply[r].status
  BY <1>1, <1>2 DEF ReplyState
<1>4. reply' = [reply EXCEPT ![r] = c]
  BY <1>1, <1>2 DEF Tell
<1>5. reply' \in [Calls -> ReplyState] /\ reply'[r] = c /\ \A q \in Calls : q # r => reply'[q] = reply[q]
  BY <1>1, <1>3, <1>4
<1> QED
  BY <1>3, <1>5 DEF Hears, ReplyIs

\* Save, field by field.
LEMMA SaveIs ==
    ASSUME TypeOK, NEW i \in Calls, NEW s \in Session, Save(i, s)
    PROVE  /\ SessIs(i, s.status, s.msgs, s.draft)
           /\ sess' \in [Calls -> Session] /\ newest' \in Calls \cup {None} /\ rev' \in Nat
BY DEF TypeOK, Save, SessIs

SendIs(r) ==
    /\ call[r].pc = "send"
    /\ Hears(r) /\ Goes(r, "store")
    /\ UNCHANGED <<sess, newest, rev, board, page, gets, rough>>

\* dispatch_start_prompt and dispatch_answer, field by field.
LEMMA SendDoes == ASSUME TypeOK, NEW r \in Calls, Send(r) PROVE SendIs(r) /\ TypeOK'
<1>1. Goes(r, "store") /\ call' \in [Calls -> CallState]
  BY StepIs DEF Send
<1>2. Hears(r) /\ reply' \in [Calls -> ReplyState]
  BY TellIs DEF Send
<1> QED
  BY <1>1, <1>2 DEF Send, SendIs, TypeOK

StoreAnswerIs(r) ==
    /\ call[r].pc = "store" /\ call[r].kind = "answer"
    /\ SessIs(call[r].sid, sess[call[r].sid].status, call[r].msgs, sess[call[r].sid].draft)
    /\ CallIs(r, "answer", "refresh", call[r].sid, <<>>, call[r].about, call[r].got)
    /\ UNCHANGED <<reply, board, page, gets, rough>>

StoreTouchIs(r) ==
    /\ call[r].pc = "store" /\ call[r].kind = "start" /\ call[r].sid # None
    /\ sess' = sess /\ newest' = call[r].sid /\ rev' = rev + 1
    /\ CallIs(r, "start", "refresh", call[r].sid, <<>>, call[r].about, call[r].got)
    /\ UNCHANGED <<reply, board, page, gets, rough>>

StoreNewIs(r) ==
    /\ call[r].pc = "store" /\ call[r].kind = "start" /\ call[r].sid = None
    /\ SessIs(r, "active", <<By("user", r)>>, None)
    /\ CallIs(r, "start", "refresh", r, <<>>, call[r].about, call[r].got)
    /\ UNCHANGED <<reply, board, page, gets, rough>>

\* The three commits of start_onboarding and answer_onboarding.
LEMMA StoreDoes ==
    ASSUME TypeOK, CallShape, NEW r \in Calls, Store(r)
    PROVE  (StoreAnswerIs(r) \/ StoreTouchIs(r) \/ StoreNewIs(r)) /\ TypeOK'
<1> DEFINE i == call[r].sid
<1>1. call \in [Calls -> CallState] /\ call[r] \in CallState /\ <<>> \in Seq(Entry)
  BY NoMessages DEF TypeOK
<1>2. call[r].kind \in {"start", "answer"} /\ call[r].pc = "store" /\ i \in Calls \cup {None}
  BY <1>1 DEF CallState, Store
<1>3. i = None => call[r].kind = "start"
  BY <1>2 DEF CallShape, CallFits, Running
<1>4. PICK j : j = IF i = None THEN r ELSE i
  OBVIOUS
<1>5. call' = [call EXCEPT ![r] = [call[r] EXCEPT !.pc = "refresh", !.msgs = <<>>, !.sid = j]]
  BY <1>1, <1>4 DEF Store
<1>6. j \in Calls
  BY <1>2, <1>4
<1>7. [call[r] EXCEPT !.pc = "refresh", !.msgs = <<>>, !.sid = j] \in CallState
  BY <1>1, <1>6 DEF CallState
<1>8. call' \in [Calls -> CallState]
  BY <1>1, <1>5, <1>7
<1>9. CallIs(r, call[r].kind, "refresh", j, <<>>, call[r].about, call[r].got)
  BY <1>1, <1>5 DEF CallIs, CallState
<1>10. CASE call[r].kind = "answer"
  <2>1. i \in Calls /\ i = j /\ sess[i] \in Session
    BY <1>2, <1>3, <1>4, <1>10 DEF TypeOK
  <2>2. [sess[i] EXCEPT !.msgs = call[r].msgs] \in Session
    BY <1>1, <2>1 DEF CallState, Session
  <2>3. Save(i, [sess[i] EXCEPT !.msgs = call[r].msgs])
    BY <1>10 DEF Store
  <2>4. PICK s : s = [sess[i] EXCEPT !.msgs = call[r].msgs]
    OBVIOUS
  <2>5. s.status = sess[i].status /\ s.msgs = call[r].msgs /\ s.draft = sess[i].draft
    BY <2>1, <2>4 DEF Session
  <2>6. SessIs(i, s.status, s.msgs, s.draft) /\ sess' \in [Calls -> Session] /\ newest' \in Calls \cup {None} /\ rev' \in Nat
    BY <2>1, <2>2, <2>3, <2>4, SaveIs
  <2>7. StoreAnswerIs(r)
    BY <1>2, <1>9, <1>10, <2>1, <2>5, <2>6 DEF StoreAnswerIs, Store
  <2>8. TypeOK'
    BY <1>8, <2>6 DEF Store, TypeOK
  <2> QED
    BY <2>7, <2>8
<1>11. CASE call[r].kind = "start" /\ i # None
  <2>1. i \in Calls /\ i = j /\ sess[i] \in Session /\ sess \in [Calls -> Session]
    BY <1>2, <1>4, <1>11 DEF TypeOK
  <2>2. Save(i, sess[i])
    BY <1>11 DEF Store
  <2>3. sess' = sess /\ newest' = i /\ rev' = rev + 1
    BY <2>1, <2>2 DEF Save
  <2>4. StoreTouchIs(r)
    BY <1>2, <1>9, <1>11, <2>1, <2>3 DEF StoreTouchIs, Store
  <2>5. TypeOK'
    BY <1>8, <2>1, <2>3 DEF Store, TypeOK
  <2> QED
    BY <2>4, <2>5
<1>12. CASE call[r].kind = "start" /\ i = None
  <2>1. PICK s : s = [status |-> "active", msgs |-> <<By("user", r)>>, draft |-> None]
    OBVIOUS
  <2>2. s \in Session /\ s.status = "active" /\ s.msgs = <<By("user", r)>> /\ s.draft = None
    BY <2>1, NoMessages DEF Session, Status
  <2>3. Save(r, s)
    BY <1>12, <2>1 DEF Store
  <2>4. SessIs(r, s.status, s.msgs, s.draft) /\ sess' \in [Calls -> Session] /\ newest' \in Calls \cup {None} /\ rev' \in Nat
    BY <2>2, <2>3, SaveIs
  <2>5. StoreNewIs(r)
    BY <1>2, <1>4, <1>9, <1>12, <2>2, <2>4 DEF StoreNewIs, Store
  <2>6. TypeOK'
    BY <1>8, <2>4 DEF Store, TypeOK
  <2> QED
    BY <2>5, <2>6
<1> QED
  BY <1>2, <1>3, <1>10, <1>11, <1>12

RefreshIs(r) ==
    /\ call[r].pc = "refresh"
    /\ CallIs(r, call[r].kind, "answered", call[r].sid, call[r].msgs, call[r].about, Reads(call[r].sid))
    /\ UNCHANGED <<sess, newest, rev, reply, board, page, gets, rough>>

\* session.refresh, field by field.
LEMMA RefreshDoes ==
    ASSUME TypeOK, CallShape, NEW r \in Calls, Refresh(r)
    PROVE  RefreshIs(r) /\ call[r].sid \in Calls /\ TypeOK'
<1>1. call \in [Calls -> CallState] /\ call[r] \in CallState /\ call[r].pc = "refresh"
  BY DEF TypeOK, Refresh
<1>2. call[r].sid \in Calls
  BY <1>1 DEF CallShape, CallFits, Running, CallState
<1>3. PICK g : g = Reads(call[r].sid)
  OBVIOUS
<1>4. g \in Reading
  BY <1>2, <1>3 DEF Reads, Reading, TypeOK
<1>5. call' = [call EXCEPT ![r] = [call[r] EXCEPT !.pc = "answered", !.got = g]]
  BY <1>1, <1>3 DEF Refresh
<1>6. [call[r] EXCEPT !.pc = "answered", !.got = g] \in CallState
  BY <1>1, <1>4 DEF CallState
<1>7. CallIs(r, call[r].kind, "answered", call[r].sid, call[r].msgs, call[r].about, g)
  BY <1>1, <1>5 DEF CallIs, CallState
<1>8. RefreshIs(r)
  BY <1>1, <1>3, <1>7 DEF RefreshIs, Refresh
<1>9. call' \in [Calls -> CallState]
  BY <1>1, <1>5, <1>6
<1>10. TypeOK'
  BY <1>9 DEF Refresh, TypeOK
<1> QED
  BY <1>2, <1>8, <1>10

StoreConfirmIs(r) ==
    /\ call[r].pc = "store" /\ call[r].kind = "confirm"
    /\ SessIs(call[r].sid, IF call[r].got.s.status = "confirmed" THEN sess[call[r].sid].status ELSE "confirmed",
              sess[call[r].sid].msgs, sess[call[r].sid].draft)
    /\ board'.goal = call[r].about /\ board'.lead = call[r].got.s.draft
    /\ Goes(r, "answered")
    /\ UNCHANGED <<reply, page, gets, rough>>

\* The commit of confirm_onboarding, field by field.
LEMMA StoreConfirmDoes ==
    ASSUME TypeOK, CallShape, NEW r \in Calls, StoreConfirm(r)
    PROVE  StoreConfirmIs(r) /\ TypeOK'
<1> DEFINE i == call[r].sid
           st == IF call[r].got.s.status = "confirmed" THEN sess[i].status ELSE "confirmed"
<1>1. call[r].kind = "confirm" /\ call[r].pc = "store" /\ i \in Calls
  BY Types DEF StoreConfirm, CallShape, CallFits, Running
<1>2. sess[i] \in Session
  BY <1>1 DEF TypeOK
<1>3. PICK s : s = [sess[i] EXCEPT !.status = st]
  OBVIOUS
<1>4. s \in Session /\ s.status = st /\ s.msgs = sess[i].msgs /\ s.draft = sess[i].draft
  BY <1>2, <1>3 DEF Session, Status
<1>5. Save(i, s)
  BY <1>2, <1>3 DEF StoreConfirm, Session
<1>6. SessIs(i, s.status, s.msgs, s.draft) /\ sess' \in [Calls -> Session] /\ newest' \in Calls \cup {None} /\ rev' \in Nat
  BY <1>1, <1>4, <1>5, SaveIs
<1>7. Goes(r, "answered") /\ call' \in [Calls -> CallState]
  BY StepIs DEF StoreConfirm
<1>8. call[r].about \in Calls \cup {None} /\ call[r].got.s.draft \in Calls \cup {None}
  BY Types DEF Session
<1>9. StoreConfirmIs(r)
  BY <1>1, <1>4, <1>6, <1>7 DEF StoreConfirm, StoreConfirmIs
<1>10. TypeOK'
  BY <1>6, <1>7, <1>8 DEF StoreConfirm, TypeOK
<1> QED
  BY <1>9, <1>10

FailIs(r) ==
    /\ call[r].pc \in {"send", "store", "answered"}
    /\ reply' = reply \/ (call[r].pc = "send" /\ Hears(r))
    /\ Ended(r, "failed")
    /\ rough' = (rough \/ reply'[r].pc # "none")
    /\ UNCHANGED <<sess, newest, rev, board, page, gets>>

\* A request that fails, field by field.
LEMMA FailDoes == ASSUME TypeOK, NEW r \in Calls, Fail(r) PROVE FailIs(r) /\ TypeOK'
<1>1. Ended(r, "failed") /\ call' \in [Calls -> CallState]
  BY EndsIs DEF Fail
<1>2. (reply' = reply \/ (call[r].pc = "send" /\ Hears(r))) /\ reply' \in [Calls -> ReplyState]
  BY TellIs DEF Fail, TypeOK
<1>3. FailIs(r)
  BY <1>1, <1>2 DEF Fail, FailIs
<1>4. rough' \in BOOLEAN
  BY DEF Fail, TypeOK
<1> QED
  BY <1>1, <1>2, <1>3, <1>4 DEF Fail, TypeOK
LoadRefusedIs(r) ==
    /\ reply[r].pc = "told" /\ newest \in Calls /\ sess[newest].status = "confirmed"
    /\ ReplyIs(r, "refused", "question", None, <<>>, "none")
    /\ UNCHANGED <<sess, newest, rev, call, board, page, gets, rough>>

LoadIs(r) ==
    /\ reply[r].pc = "told" /\ newest \in Calls /\ sess[newest].status # "confirmed"
    /\ \E kind \in {"question", "complete"} : ReplyIs(r, "store", kind, newest, sess[newest].msgs, sess[newest].status)
    /\ UNCHANGED <<sess, newest, rev, call, board, page, gets, rough>>

\* Reading a session that is not confirmed, field by field.
LEMMA LoadedIs ==
    ASSUME TypeOK, NEW r \in Calls, newest \in Calls, Load(r)
    PROVE  \E kind \in {"question", "complete"} :
               /\ ReplyIs(r, "store", kind, newest, sess[newest].msgs, sess[newest].status)
               /\ reply' \in [Calls -> ReplyState]
<1>1. reply \in [Calls -> ReplyState] /\ sess[newest] \in Session
  BY DEF TypeOK
<1>2. PICK kind \in {"question", "complete"} :
          reply' = [reply EXCEPT ![r] = [pc |-> "store", kind |-> kind, sid |-> newest,
                                         msgs |-> sess[newest].msgs, status |-> sess[newest].status]]
  BY DEF Load
<1>3. PICK c : c = [pc |-> "store", kind |-> kind, sid |-> newest, msgs |-> sess[newest].msgs, status |-> sess[newest].status]
  OBVIOUS
<1>4. c \in ReplyState
  BY <1>1, <1>3 DEF ReplyState, Session
<1>5. c.pc = "store" /\ c.kind = kind /\ c.sid = newest /\ c.msgs = sess[newest].msgs /\ c.status = sess[newest].status
  BY <1>3
<1>6. reply' = [reply EXCEPT ![r] = c]
  BY <1>2, <1>3
<1>7. reply' \in [Calls -> ReplyState]
  BY <1>1, <1>4, <1>6
<1>8. ReplyIs(r, "store", kind, newest, sess[newest].msgs, sess[newest].status)
  BY <1>1, <1>5, <1>6 DEF ReplyIs
<1> QED
  BY <1>7, <1>8

\* The two ends of the reading in agent_onboarding_update.
LEMMA LoadDoes ==
    ASSUME TypeOK, NEW r \in Calls, LoadReply(r)
    PROVE  (LoadRefusedIs(r) \/ LoadIs(r)) /\ TypeOK'
<1>1. reply \in [Calls -> ReplyState] /\ reply[r].pc = "told" /\ newest \in Calls /\ sess[newest] \in Session
  BY DEF LoadReply, TypeOK
<1>2. CASE sess[newest].status = "confirmed"
  <2>1. PICK c : c = [NoReply EXCEPT !.pc = "refused"]
    OBVIOUS
  <2>2. c \in ReplyState
    BY <2>1, Types DEF ReplyState
  <2>3. c.pc = "refused" /\ c.kind = "question" /\ c.sid = None /\ c.msgs = <<>> /\ c.status = "none"
    BY <2>1 DEF NoReply
  <2>4. reply' = [reply EXCEPT ![r] = c]
    BY <1>2, <2>1 DEF LoadReply, Load
  <2>5. reply' \in [Calls -> ReplyState] /\ LoadRefusedIs(r)
    BY <1>1, <1>2, <2>2, <2>3, <2>4 DEF LoadReply, LoadRefusedIs, ReplyIs
  <2> QED
    BY <2>5 DEF LoadReply, TypeOK
<1>3. CASE sess[newest].status # "confirmed"
  <2>1. Load(r)
    BY <1>3 DEF LoadReply
  <2>2. PICK kind \in {"question", "complete"} :
            /\ ReplyIs(r, "store", kind, newest, sess[newest].msgs, sess[newest].status)
            /\ reply' \in [Calls -> ReplyState]
    BY <1>1, <2>1, LoadedIs
  <2>3. LoadIs(r)
    BY <1>1, <1>3, <2>2 DEF LoadReply, LoadIs
  <2> QED
    BY <2>2, <2>3 DEF LoadReply, TypeOK
<1> QED
  BY <1>2, <1>3

SpeakIs(r) ==
    /\ call[r].pc = "new" /\ newest \in Calls /\ unasked'
    /\ \E kind \in {"question", "complete"} : ReplyIs(r, "store", kind, newest, sess[newest].msgs, sess[newest].status)
    /\ Ended(r, "ok")
    /\ UNCHANGED <<sess, newest, rev, board, page, gets, rough>>

\* An update nobody asked for, field by field.
LEMMA SpeakDoes == ASSUME TypeOK, NEW r \in Calls, Speak(r) PROVE SpeakIs(r) /\ TypeOK'
<1>1. newest \in Calls /\ call[r].pc = "new" /\ Load(r) /\ unasked' = TRUE
  BY DEF Speak, TypeOK
<1>2. PICK kind \in {"question", "complete"} :
          /\ ReplyIs(r, "store", kind, newest, sess[newest].msgs, sess[newest].status)
          /\ reply' \in [Calls -> ReplyState]
  BY <1>1, LoadedIs
<1>3. Ended(r, "ok") /\ call' \in [Calls -> CallState]
  BY EndsIs DEF Speak
<1>4. SpeakIs(r)
  BY <1>1, <1>2, <1>3 DEF Speak, SpeakIs
<1> QED
  BY <1>1, <1>2, <1>3, <1>4 DEF Speak, TypeOK

StoreReplyIs(r) ==
    /\ reply[r].pc = "store" /\ reply[r].sid \in Calls
    /\ LET i == reply[r].sid
           asks == reply[r].kind = "question"
           status == IF asks \/ reply[r].status = "completed" THEN sess[i].status ELSE "completed"
       IN  SessIs(i, status, Append(reply[r].msgs, By("agent", r)), IF asks THEN sess[i].draft ELSE r)
    /\ ReplyIs(r, "ok", reply[r].kind, None, <<>>, "none")
    /\ UNCHANGED <<call, board, page, gets, rough>>

\* Its commit, field by field.
LEMMA StoreReplyDoes ==
    ASSUME TypeOK, ReplyShape, NEW r \in Calls, StoreReply(r)
    PROVE  StoreReplyIs(r) /\ TypeOK'
<1> DEFINE i == reply[r].sid
           asks == reply[r].kind = "question"
           st == IF asks \/ reply[r].status = "completed" THEN sess[i].status ELSE "completed"
           dr == IF asks THEN sess[i].draft ELSE r
<1>1. reply \in [Calls -> ReplyState] /\ reply[r] \in ReplyState /\ reply[r].pc = "store" /\ i \in Calls
  BY DEF StoreReply, TypeOK, ReplyShape, ReplyFits, ReplyState
<1>2. sess[i] \in Session
  BY <1>1 DEF TypeOK
<1>3. PICK l : l = Append(reply[r].msgs, By("agent", r))
  OBVIOUS
<1>4. l \in Seq(Entry)
  BY <1>1, <1>3, AppendIs DEF ReplyState
<1>5. PICK s : s = IF asks THEN [sess[i] EXCEPT !.msgs = l]
                   ELSE [[sess[i] EXCEPT !.msgs = l] EXCEPT !.draft = r, !.status = st]
  OBVIOUS
<1>6. s \in Session
  BY <1>2, <1>4, <1>5 DEF Session, Status
<1>7. s.status = st /\ s.msgs = l /\ s.draft = dr
  BY <1>2, <1>5 DEF Session
<1>8. Save(i, s)
  <2>1. [sess[i] EXCEPT !.msgs = l].status = sess[i].status
    BY <1>2 DEF Session
  <2>2. CASE asks
    BY <2>2, <1>3, <1>5 DEF StoreReply
  <2>3. CASE ~asks
    <3>1. Save(i, [[sess[i] EXCEPT !.msgs = l] EXCEPT !.draft = r,
                      !.status = IF reply[r].status = "completed" THEN @ ELSE "completed"])
      BY <2>3, <1>3 DEF StoreReply
    <3>2. Save(i, [[sess[i] EXCEPT !.msgs = l] EXCEPT !.draft = r, !.status = st])
      BY <2>1, <2>3, <3>1
    <3> QED
      BY <2>3, <3>2, <1>5
  <2> QED
    BY <2>2, <2>3
<1>9. SessIs(i, s.status, s.msgs, s.draft) /\ sess' \in [Calls -> Session] /\ newest' \in Calls \cup {None} /\ rev' \in Nat
  BY <1>1, <1>6, <1>8, SaveIs
<1>10. PICK c : c = [NoReply EXCEPT !.pc = "ok", !.kind = reply[r].kind]
  OBVIOUS
<1>11. c \in ReplyState /\ c.pc = "ok" /\ c.kind = reply[r].kind /\ c.sid = None /\ c.msgs = <<>> /\ c.status = "none"
  <2>1. c \in ReplyState
    BY <1>1, <1>10, Types DEF ReplyState
  <2> QED
    BY <1>10, <2>1 DEF NoReply
<1>12. reply' = [reply EXCEPT ![r] = c]
  BY <1>10 DEF StoreReply
<1>13. reply' \in [Calls -> ReplyState] /\ ReplyIs(r, "ok", reply[r].kind, None, <<>>, "none")
  BY <1>1, <1>11, <1>12 DEF ReplyIs
<1>14. StoreReplyIs(r)
  BY <1>1, <1>3, <1>7, <1>9, <1>13 DEF StoreReply, StoreReplyIs
<1>15. TypeOK'
  BY <1>9, <1>13 DEF StoreReply, TypeOK
<1> QED
  BY <1>14, <1>15

-----------------------------------------------------------------------------

\* A new request.
LEMMA AskIs ==
    ASSUME TypeOK, NEW r \in Calls, NEW c \in CallState, call' = [call EXCEPT ![r] = c]
    PROVE  CallIs(r, c.kind, c.pc, c.sid, c.msgs, c.about, c.got) /\ call' \in [Calls -> CallState]
<1>1. call \in [Calls -> CallState]
  BY DEF TypeOK
<1> QED
  BY <1>1 DEF CallIs

OpenIs(r) ==
    /\ ~page.open /\ board.goal = None /\ ~rough /\ call[r].pc = "new"
    /\ PageIs(TRUE, NoSession, 0, r, None)
    /\ \/ Active = {} /\ CallIs(r, "start", "send", None, <<>>, None, NoReading)
       \/ \E i \in Active : /\ Last(sess[i].msgs).by = "user"
                            /\ CallIs(r, "start", "send", i, <<>>, None, NoReading)
       \/ \E i \in Active : /\ Last(sess[i].msgs).by # "user"
                            /\ CallIs(r, "start", "answered", i, <<>>, None, Reads(i))
    /\ UNCHANGED <<sess, newest, rev, reply, board, gets, rough>>

\* startSession, and the three things start_onboarding may find.
LEMMA OpenDoes == ASSUME TypeOK, NEW r \in Calls, Open(r) PROVE OpenIs(r) /\ TypeOK'
<1>1. PICK c \in LookStart(r) : call' = [call EXCEPT ![r] = c]
  BY DEF Open, Ask
<1>2. NewCall \in CallState /\ NewCall.kind = "start" /\ NewCall.sid = None /\ NewCall.msgs = <<>> /\ NewCall.about = None
      /\ NewCall.got = NoReading
  BY Types DEF NewCall, NoReading
<1>3. ~rough /\ call[r].pc = "new"
  BY DEF Open, Ask
<1>4. PageIs(TRUE, NoSession, 0, r, None) /\ page' \in PageState
  <2>1. page' = [Closed EXCEPT !.open = TRUE, !.cur = r] /\ Closed \in PageState
    BY Types DEF Open
  <2>2. page' \in PageState
    BY <2>1 DEF PageState
  <2> QED
    BY <2>1, <2>2 DEF PageIs, Closed
<1>5. CASE Active = {}
  <2>1. c = [NewCall EXCEPT !.pc = "send"]
    BY <1>1, <1>5 DEF LookStart
  <2>2. c \in CallState
    BY <1>2, <2>1 DEF CallState
  <2>3. c.kind = "start" /\ c.pc = "send" /\ c.sid = None /\ c.msgs = <<>> /\ c.about = None /\ c.got = NoReading
    BY <1>2, <2>1 DEF NewCall
  <2>4. CallIs(r, "start", "send", None, <<>>, None, NoReading) /\ call' \in [Calls -> CallState]
    BY <1>1, <2>2, <2>3, AskIs
  <2>5. OpenIs(r)
    BY <1>3, <1>4, <1>5, <2>4 DEF Open, OpenIs
  <2> QED
    BY <1>4, <2>4, <2>5 DEF Open, TypeOK
<1>6. CASE Active # {}
  <2>1. PICK i \in Active : c = IF Last(sess[i].msgs).by = "user"
                                THEN [NewCall EXCEPT !.pc = "send", !.sid = i]
                                ELSE [NewCall EXCEPT !.pc = "answered", !.sid = i, !.got = Reads(i)]
    BY <1>1, <1>6 DEF LookStart
  <2>2. i \in Calls
    BY DEF Active
  <2>3. CASE Last(sess[i].msgs).by = "user"
    <3>1. c = [NewCall EXCEPT !.pc = "send", !.sid = i]
      BY <2>1, <2>3
    <3>2. c \in CallState
      BY <1>2, <2>2, <3>1 DEF CallState
    <3>3. c.kind = "start" /\ c.pc = "send" /\ c.sid = i /\ c.msgs = <<>> /\ c.about = None /\ c.got = NoReading
      BY <1>2, <3>1 DEF NewCall
    <3>4. CallIs(r, "start", "send", i, <<>>, None, NoReading) /\ call' \in [Calls -> CallState]
      BY <1>1, <3>2, <3>3, AskIs
    <3>5. OpenIs(r)
      BY <1>3, <1>4, <2>3, <3>4 DEF Open, OpenIs
    <3> QED
      BY <1>4, <3>4, <3>5 DEF Open, TypeOK
  <2>4. CASE Last(sess[i].msgs).by # "user"
    <3>1. PICK g : g = Reads(i)
      OBVIOUS
    <3>2. c = [NewCall EXCEPT !.pc = "answered", !.sid = i, !.got = g]
      BY <2>1, <2>4, <3>1
    <3>3. g \in Reading
      BY <2>2, <3>1 DEF Reads, Reading, TypeOK
    <3>4. c \in CallState
      BY <1>2, <2>2, <3>2, <3>3 DEF CallState
    <3>5. c.kind = "start" /\ c.pc = "answered" /\ c.sid = i /\ c.msgs = <<>> /\ c.about = None /\ c.got = g
      BY <1>2, <3>2 DEF NewCall
    <3>6. CallIs(r, "start", "answered", i, <<>>, None, g) /\ call' \in [Calls -> CallState]
      BY <1>1, <3>4, <3>5, AskIs
    <3>7. OpenIs(r)
      BY <1>3, <1>4, <2>4, <3>1, <3>6 DEF Open, OpenIs
    <3> QED
      BY <1>4, <3>6, <3>7 DEF Open, TypeOK
  <2> QED
    BY <2>3, <2>4
<1> QED
  BY <1>5, <1>6
AnswerIs(r) ==
    /\ page.open /\ ~Loading /\ ~IsAwaiting /\ (Asked \/ Drafted) /\ newest \in Calls /\ ~rough /\ call[r].pc = "new"
    /\ CallIs(r, "answer", "send", newest, Append(sess[newest].msgs, By("user", r)), Seen, NoReading)
    /\ PageIs(TRUE, page.view, page.n, r, None)
    /\ UNCHANGED <<sess, newest, rev, reply, board, gets, rough>>

\* What the page shows came from a session.
LEMMA SomethingShown ==
    ASSUME TypeOK, PageShape, Asked \/ Drafted
    PROVE  newest \in Calls
<1>1. NoSession.draft = None /\ LastAgent(NoSession.msgs) = None
  BY NoMessages DEF NoSession
<1>2. page.view # NoSession
  BY <1>1 DEF Asked, Drafted, Seen
<1> QED
  BY <1>2 DEF PageShape, TypeOK

\* handleAnswer and what answer_onboarding copies.
LEMMA AnswerDoes == ASSUME TypeOK, PageShape, NEW r \in Calls, Answer(r) PROVE AnswerIs(r) /\ TypeOK'
<1>1. newest \in Calls
  BY SomethingShown DEF Answer
<1>2. sess[newest].msgs \in Seq(Entry) /\ Seen \in Calls \cup {None} /\ page \in PageState /\ page.open \in BOOLEAN
  <2>1. page.view.msgs \in Seq(Entry) /\ page \in PageState
    BY Types DEF TypeOK
  <2>2. Seen \in Calls \cup {None}
    BY <2>1, LastAgentIs DEF Seen, Replies
  <2> QED
    BY <1>1, <2>1, <2>2, Types DEF PageState
<1>3. PICK l : l = Append(sess[newest].msgs, By("user", r))
  OBVIOUS
<1>4. l \in Seq(Entry)
  BY <1>2, <1>3, AppendIs
<1>5. PICK c : c = [NewCall EXCEPT !.kind = "answer", !.pc = "send", !.sid = newest, !.about = Seen, !.msgs = l]
  OBVIOUS
<1>6. call' = [call EXCEPT ![r] = c] /\ ~rough /\ call[r].pc = "new"
  BY <1>3, <1>5 DEF Answer, Ask, LookAnswer
<1>7. NewCall \in CallState /\ NewCall.got = NoReading
  BY Types DEF NewCall, NoReading
<1>8. c \in CallState
  BY <1>1, <1>2, <1>4, <1>5, <1>7 DEF CallState
<1>9. c.kind = "answer" /\ c.pc = "send" /\ c.sid = newest /\ c.msgs = l /\ c.about = Seen /\ c.got = NoReading
  BY <1>5, <1>7 DEF NewCall
<1>10. CallIs(r, "answer", "send", newest, l, Seen, NoReading) /\ call' \in [Calls -> CallState]
  BY <1>6, <1>8, <1>9, AskIs
<1>11. PageIs(TRUE, page.view, page.n, r, None) /\ page' \in PageState
  <2>1. page' = [page EXCEPT !.cur = r, !.awaiting = None] /\ page.open
    BY DEF Answer
  <2> QED
    BY <1>2, <2>1 DEF PageIs, PageState
<1>12. AnswerIs(r)
  BY <1>1, <1>3, <1>6, <1>10, <1>11 DEF Answer, AnswerIs
<1> QED
  BY <1>10, <1>11, <1>12 DEF Answer, TypeOK

ConfirmIs(r) ==
    /\ page.open /\ ~Loading /\ ~IsAwaiting /\ Drafted /\ newest \in Calls /\ ~rough /\ call[r].pc = "new"
    /\ CallIs(r, "confirm", "store", newest, <<>>, page.view.draft, Reads(newest))
    /\ PageIs(TRUE, page.view, page.n, r, page.awaiting)
    /\ UNCHANGED <<sess, newest, rev, reply, board, gets, rough>>

\* confirmGoal and what confirm_onboarding reads.
LEMMA ConfirmDoes == ASSUME TypeOK, PageShape, NEW r \in Calls, Confirm(r) PROVE ConfirmIs(r) /\ TypeOK'
<1>1. newest \in Calls
  BY SomethingShown DEF Confirm
<1>2. PICK g : g = Reads(newest)
  OBVIOUS
<1>3. g \in Reading
  BY <1>1, <1>2 DEF Reads, Reading, TypeOK
<1>4. PICK d : d = page.view.draft
  OBVIOUS
<1>5. d \in Calls \cup {None}
  BY <1>4, Types
<1>6. PICK c : c = [NewCall EXCEPT !.kind = "confirm", !.pc = "store", !.sid = newest, !.about = d, !.got = g]
  OBVIOUS
<1>7. call' = [call EXCEPT ![r] = c] /\ ~rough /\ call[r].pc = "new"
  BY <1>2, <1>4, <1>6 DEF Confirm, Ask, LookConfirm
<1>8. NewCall \in CallState /\ NewCall.msgs = <<>>
  BY Types DEF NewCall
<1>9. c \in CallState
  BY <1>1, <1>3, <1>5, <1>6, <1>8 DEF CallState
<1>10. c.kind = "confirm" /\ c.pc = "store" /\ c.sid = newest /\ c.msgs = <<>> /\ c.about = d /\ c.got = g
  BY <1>6, <1>8 DEF NewCall
<1>11. CallIs(r, "confirm", "store", newest, <<>>, d, g) /\ call' \in [Calls -> CallState]
  BY <1>7, <1>9, <1>10, AskIs
<1>12. PageIs(TRUE, page.view, page.n, r, page.awaiting) /\ page' \in PageState
  <2>1. page' = [page EXCEPT !.cur = r] /\ page.open /\ page \in PageState
    BY DEF Confirm, TypeOK
  <2> QED
    BY <2>1 DEF PageIs, PageState
<1>13. ConfirmIs(r)
  BY <1>1, <1>2, <1>4, <1>7, <1>11, <1>12 DEF Confirm, ConfirmIs
<1> QED
  BY <1>11, <1>12, <1>13 DEF Confirm, TypeOK

CloseIs ==
    /\ page.open /\ page' = Closed /\ gets' = {}
    /\ rough' = (rough \/ Loading \/ Out # {})
    /\ UNCHANGED <<sess, newest, rev, call, reply, board>>

\* Closing the dialog, field by field.
LEMMA CloseDoes == ASSUME TypeOK, Close PROVE CloseIs /\ TypeOK'
<1>1. CloseIs
  BY DEF Close, CloseIs, Out
<1>2. page' \in PageState /\ gets' \subseteq Reading /\ rough' \in BOOLEAN
  BY Types DEF Close, TypeOK
<1> QED
  BY <1>1, <1>2 DEF Close, TypeOK

\* What is awaited once a reading is shown.
Still(s, aw) == IF LastAgent(s.msgs) = aw THEN aw ELSE None

ShownIs(got, cur, aw) == PageIs(page.open, got.s, got.n, cur, Still(got.s, aw))

\* setSession and the effect after it, field by field.
LEMMA ShowsIs ==
    ASSUME TypeOK, NEW got \in Reading, NEW aw \in Calls \cup {None}, NEW p, p = Shows(got, aw)
    PROVE  /\ p \in PageState
           /\ p.open = page.open /\ p.view = got.s /\ p.n = got.n /\ p.cur = page.cur /\ p.awaiting = Still(got.s, aw)
<1>1. page \in PageState /\ got.s \in Session /\ got.n \in Nat
  BY DEF TypeOK, Reading
<1>2. PICK a : a = Still(got.s, aw)
  OBVIOUS
<1>3. a \in Calls \cup {None}
  BY <1>2 DEF Still
<1>4. p = [page EXCEPT !.view = got.s, !.n = got.n, !.awaiting = a]
  BY <1>2 DEF Shows, Still
<1> QED
  BY <1>1, <1>2, <1>3, <1>4 DEF PageState

ArriveShownIs(r) ==
    /\ page.cur = r /\ call[r].pc = "answered" /\ call[r].kind # "confirm"
    /\ ShownIs(call[r].got, None, Awaited(r)) /\ Ended(r, "ok") /\ rough' = (rough \/ Older(call[r].got))
    /\ UNCHANGED <<sess, newest, rev, reply, board, gets>>

ArriveClosesIs(r) ==
    /\ page.cur = r /\ call[r].pc = "answered" /\ call[r].kind = "confirm"
    /\ page' = Closed /\ Ended(r, "ok")
    /\ UNCHANGED <<sess, newest, rev, reply, board, gets, rough>>

ArriveFailedIs(r) ==
    /\ page.cur = r /\ call[r].pc = "failed"
    /\ PageIs(page.open, page.view, page.n, None, page.awaiting)
    /\ UNCHANGED <<sess, newest, rev, call, reply, board, gets, rough>>

\* What a response makes the page wait for has a type.
LEMMA AwaitedIs == ASSUME TypeOK, NEW r \in Calls PROVE Awaited(r) \in Calls \cup {None}
BY Types DEF Awaited

\* The three ends of a request of the page.
LEMMA ArriveDoes ==
    ASSUME TypeOK, NEW r \in Calls, Arrive(r)
    PROVE  (ArriveShownIs(r) \/ ArriveClosesIs(r) \/ ArriveFailedIs(r)) /\ TypeOK'
<1>1. CASE call[r].pc = "answered" /\ call[r].kind # "confirm"
  <2>1. Ends(r, "ok") /\ page' = [Shows(call[r].got, Awaited(r)) EXCEPT !.cur = None] /\ rough' = (rough \/ Older(call[r].got))
    BY <1>1 DEF Arrive
  <2>2. Ended(r, "ok") /\ call' \in [Calls -> CallState]
    BY <2>1, EndsIs
  <2>3. call[r].got \in Reading
    BY Types
  <2>4. PICK p : p = Shows(call[r].got, Awaited(r))
    OBVIOUS
  <2>5. /\ p \in PageState
        /\ p.open = page.open /\ p.view = call[r].got.s /\ p.n = call[r].got.n /\ p.awaiting = Still(call[r].got.s, Awaited(r))
    BY <2>3, <2>4, ShowsIs, AwaitedIs
  <2>6. page' = [p EXCEPT !.cur = None]
    BY <2>1, <2>4
  <2>7. page' \in PageState /\ ShownIs(call[r].got, None, Awaited(r))
    BY <2>5, <2>6 DEF ShownIs, PageIs, PageState
  <2>8. ArriveShownIs(r)
    BY <1>1, <2>1, <2>2, <2>7 DEF Arrive, ArriveShownIs
  <2>9. rough' \in BOOLEAN
    BY <2>1 DEF TypeOK
  <2> QED
    BY <2>2, <2>7, <2>8, <2>9 DEF Arrive, TypeOK
<1>2. CASE call[r].pc = "answered" /\ call[r].kind = "confirm"
  <2>1. Ends(r, "ok") /\ page' = Closed /\ rough' = rough
    BY <1>2 DEF Arrive
  <2>2. Ended(r, "ok") /\ call' \in [Calls -> CallState] /\ Closed \in PageState
    BY <2>1, EndsIs, Types
  <2>3. ArriveClosesIs(r)
    BY <1>2, <2>1, <2>2 DEF Arrive, ArriveClosesIs
  <2> QED
    BY <2>1, <2>2, <2>3 DEF Arrive, TypeOK
<1>3. CASE call[r].pc = "failed"
  <2>1. page' = [page EXCEPT !.cur = None] /\ page \in PageState
    BY <1>3 DEF Arrive, TypeOK
  <2>2. page' \in PageState /\ PageIs(page.open, page.view, page.n, None, page.awaiting)
    BY <2>1 DEF PageIs, PageState
  <2>3. ArriveFailedIs(r)
    BY <1>3, <2>2 DEF Arrive, ArriveFailedIs
  <2> QED
    BY <1>3, <2>2, <2>3 DEF Arrive, TypeOK
<1> QED
  BY <1>1, <1>2, <1>3 DEF Arrive

PollIs ==
    /\ page.open /\ ShouldPoll /\ newest \in Calls /\ gets' = gets \cup {Reads(newest)}
    /\ UNCHANGED <<sess, newest, rev, call, reply, board, page, rough>>

\* A poll, field by field.
LEMMA PollDoes == ASSUME TypeOK, Poll PROVE PollIs /\ TypeOK'
<1>1. newest \in Calls
  BY DEF Poll, TypeOK
<1>2. Reads(newest) \in Reading
  BY <1>1 DEF Reads, Reading, TypeOK
<1>3. PollIs
  BY <1>1 DEF Poll, PollIs
<1> QED
  BY <1>2, <1>3 DEF Poll, PollIs, TypeOK

GetIs(got) ==
    /\ page.open /\ got \in gets /\ gets' = gets \ {got}
    /\ ShownIs(got, page.cur, page.awaiting) /\ rough' = (rough \/ Older(got))
    /\ UNCHANGED <<sess, newest, rev, call, reply, board>>

\* Taking the answer to a poll, field by field.
LEMMA GetDoes == ASSUME TypeOK, NEW got, GetArrives(got) PROVE GetIs(got) /\ TypeOK'
<1>1. got \in Reading /\ page.awaiting \in Calls \cup {None} /\ gets \subseteq Reading
  BY Types DEF GetArrives, TypeOK
<1>2. page' = Shows(got, page.awaiting)
  BY DEF GetArrives
<1>3. page' \in PageState /\ ShownIs(got, page.cur, page.awaiting)
  BY <1>1, <1>2, ShowsIs DEF ShownIs, PageIs
<1>4. GetIs(got)
  BY <1>3 DEF GetArrives, GetIs
<1>5. gets' \subseteq Reading /\ rough' \in BOOLEAN
  BY <1>1 DEF GetArrives, TypeOK
<1> QED
  BY <1>3, <1>4, <1>5 DEF GetArrives, TypeOK

-----------------------------------------------------------------------------
(* Every step is one of these *)

StaysIs == UNCHANGED <<sess, newest, rev, call, reply, board, page, gets, rough>>

StepOf(r) ==
    \/ SendIs(r) \/ StoreAnswerIs(r) \/ StoreTouchIs(r) \/ StoreNewIs(r)
    \/ (RefreshIs(r) /\ call[r].sid \in Calls) \/ StoreConfirmIs(r) \/ FailIs(r)
    \/ LoadRefusedIs(r) \/ LoadIs(r) \/ StoreReplyIs(r)
    \/ OpenIs(r) \/ AnswerIs(r) \/ ConfirmIs(r)
    \/ ArriveShownIs(r) \/ ArriveClosesIs(r) \/ ArriveFailedIs(r)

\* A step is one of these, and keeps the types.
LEMMA NextIs ==
    ASSUME TypeOK, Shape, [Next]_vars
    PROVE  /\ TypeOK'
           /\ StaysIs \/ CloseIs \/ PollIs \/ (\E got \in gets : GetIs(got))
              \/ (\E r \in Calls : StepOf(r) \/ SpeakIs(r))
<1> USE DEF Shape
<1>1. CASE UNCHANGED vars
  BY <1>1 DEF vars, StaysIs, TypeOK
<1>2. CASE Close
  BY <1>2, CloseDoes
<1>3. CASE Poll
  BY <1>3, PollDoes
<1>4. CASE \E got \in gets : GetArrives(got)
  BY <1>4, GetDoes
<1>5. ASSUME NEW r \in Calls, Open(r) \/ Answer(r) \/ Confirm(r) \/ Arrive(r) \/ Handler(r) \/ Fail(r)
                               \/ Speak(r) \/ LoadReply(r) \/ StoreReply(r)
      PROVE  TypeOK' /\ (StepOf(r) \/ SpeakIs(r))
  <2>1. CASE Open(r)
    BY <2>1, OpenDoes DEF StepOf
  <2>2. CASE Answer(r)
    BY <2>2, AnswerDoes DEF StepOf
  <2>3. CASE Confirm(r)
    BY <2>3, ConfirmDoes DEF StepOf
  <2>4. CASE Arrive(r)
    BY <2>4, ArriveDoes DEF StepOf
  <2>5. CASE Handler(r)
    BY <2>5, SendDoes, StoreDoes, StoreConfirmDoes, RefreshDoes DEF StepOf, Handler
  <2>6. CASE Fail(r)
    BY <2>6, FailDoes DEF StepOf
  <2>7. CASE LoadReply(r)
    BY <2>7, LoadDoes DEF StepOf
  <2>8. CASE StoreReply(r)
    BY <2>8, StoreReplyDoes DEF StepOf
  <2>9. CASE Speak(r)
    BY <2>9, SpeakDoes
  <2> QED
    BY <1>5, <2>1, <2>2, <2>3, <2>4, <2>5, <2>6, <2>7, <2>8, <2>9
<1> QED
  BY <1>1, <1>2, <1>3, <1>4, <1>5 DEF Next
-----------------------------------------------------------------------------
(* Shape is inductive *)

\* What never goes back.
Grows ==
    /\ \A i \in Calls : sess[i].status # "none" => sess'[i].status # "none"
    /\ \A x \in Calls : reply[x].pc # "none" => reply'[x].pc # "none"
    /\ \A x \in Calls : reply[x].pc = "ok" => reply'[x].pc = "ok"
    /\ \A x \in Calls : reply[x].pc = "refused" => reply'[x].pc = "refused"
    /\ board.goal # None => board'.goal # None
    /\ newest # None => newest' # None
    /\ rev <= rev'

\* A commit of a session that was there.
LEMMA WritesIs ==
    ASSUME TypeOK, NEW i, NEW st, NEW ms, NEW dr, SessIs(i, st, ms, dr), sess[i].status # "none", st # "none"
    PROVE  /\ newest' # None /\ rev <= rev' /\ rev' = rev + 1
           /\ \A k \in Calls : sess[k].status # "none" <=> sess'[k].status # "none"
BY Types, OnboardingAssumption DEF SessIs

\* A step for r disturbs no other request, and makes a session only for r.
LEMMA GrowsStep ==
    ASSUME TypeOK, Shape, NEW r \in Calls, StepOf(r)
    PROVE  /\ Grows
           /\ (sess' = sess /\ newest' = newest /\ rev' = rev) \/ rev' = rev + 1
           /\ \A q \in Calls : q # r => call'[q] = call[q] /\ reply'[q] = reply[q]
           /\ \A i \in Calls : sess[i].status = "none" /\ sess'[i].status # "none" => i = r /\ call'[r].pc = "refresh"
<1> USE DEF Grows, CallIs, ReplyIs
<1>0. rev \in Nat /\ newest \in Calls \cup {None} /\ call[r].sid \in Calls \cup {None} /\ call[r].msgs \in Seq(Entry)
  BY Types
<1>1. CASE SendIs(r)
  BY <1>0, <1>1 DEF SendIs, Goes, Hears, Shape, CallShape, CallFits
<1>2. CASE StoreAnswerIs(r)
  <2>1. call[r].sid \in Calls /\ call[r].sid # None
    BY <1>2, OnboardingAssumption DEF StoreAnswerIs, SessIs
  <2>2. sess[call[r].sid].status # "none"
    BY <1>2, <2>1 DEF StoreAnswerIs, Shape, CallShape, CallFits, Running
  <2>3. SessIs(call[r].sid, sess[call[r].sid].status, call[r].msgs, sess[call[r].sid].draft)
    BY <1>2 DEF StoreAnswerIs
  <2>4. reply' = reply /\ board' = board /\ \A q \in Calls : q # r => call'[q] = call[q]
    BY <1>2 DEF StoreAnswerIs
  <2> QED
    BY <2>2, <2>3, <2>4, WritesIs
<1>3. CASE StoreTouchIs(r)
  BY <1>0, <1>3 DEF StoreTouchIs
<1>4. CASE StoreNewIs(r)
  BY <1>0, <1>4, OnboardingAssumption DEF StoreNewIs, SessIs
<1>5. CASE RefreshIs(r)
  BY <1>0, <1>5 DEF RefreshIs
<1>6. CASE StoreConfirmIs(r)
  <2>1. call[r].sid \in Calls /\ call[r].sid # None
    BY <1>6, OnboardingAssumption DEF StoreConfirmIs, SessIs
  <2>2. sess[call[r].sid].status # "none" /\ call[r].about # None
    BY <1>6, <2>1 DEF StoreConfirmIs, Shape, CallShape, CallFits, Running
  <2>3. PICK st, ms, dr : SessIs(call[r].sid, st, ms, dr) /\ st # "none"
    BY <1>6, <2>2 DEF StoreConfirmIs
  <2>4. reply' = reply /\ board'.goal # None /\ \A q \in Calls : q # r => call'[q] = call[q]
    BY <1>6, <2>2 DEF StoreConfirmIs, Goes
  <2> QED
    BY <2>2, <2>3, <2>4, WritesIs
<1>7. CASE FailIs(r)
  BY <1>0, <1>7 DEF FailIs, Ended, Hears, Shape, CallShape, CallFits
<1>8. CASE LoadRefusedIs(r)
  BY <1>0, <1>8 DEF LoadRefusedIs
<1>9. CASE LoadIs(r)
  BY <1>0, <1>9 DEF LoadIs
<1>10. CASE StoreReplyIs(r)
  <2>1. sess[reply[r].sid].status # "none" /\ reply[r].pc = "store"
    BY <1>10 DEF StoreReplyIs, Shape, ReplyShape, ReplyFits
  <2>2. PICK st, ms, dr : SessIs(reply[r].sid, st, ms, dr) /\ st # "none"
    BY <1>10, <2>1 DEF StoreReplyIs
  <2>3. call' = call /\ board' = board /\ ReplyIs(r, "ok", reply[r].kind, None, <<>>, "none")
    BY <1>10 DEF StoreReplyIs
  <2> QED
    BY <2>1, <2>2, <2>3, WritesIs
<1>11. CASE OpenIs(r)
  BY <1>0, <1>11 DEF OpenIs
<1>12. CASE AnswerIs(r)
  BY <1>0, <1>12 DEF AnswerIs
<1>13. CASE ConfirmIs(r)
  BY <1>0, <1>13 DEF ConfirmIs
<1>14. CASE ArriveShownIs(r)
  BY <1>0, <1>14 DEF ArriveShownIs, Ended
<1>15. CASE ArriveClosesIs(r)
  BY <1>0, <1>15 DEF ArriveClosesIs, Ended
<1>16. CASE ArriveFailedIs(r)
  BY <1>0, <1>16 DEF ArriveFailedIs
<1> QED
  BY <1>1, <1>2, <1>3, <1>4, <1>5, <1>6, <1>7, <1>8, <1>9, <1>10, <1>11, <1>12, <1>13, <1>14, <1>15, <1>16 DEF StepOf

\* A step keeps the shape of the sessions.
LEMMA SessShapeStep ==
    ASSUME TypeOK, Shape, TypeOK', NEW r \in Calls, StepOf(r)
    PROVE  SessShape'
<1>0. /\ Grows /\ newest \in Calls \cup {None} /\ newest' \in Calls \cup {None} /\ SessShape
      /\ \A i \in Calls : sess[i].msgs \in Seq(Entry)
  BY GrowsStep, Types DEF TypeOK, Shape
<1>1. CASE sess' = sess /\ (newest' = newest \/ StoreTouchIs(r))
  <2>1. newest' = newest \/ (newest' \in Calls /\ sess[newest'].status # "none")
    BY <1>1, Types DEF Shape, CallShape, CallFits, Running, StoreTouchIs
  <2> QED
    BY <1>0, <1>1, <2>1 DEF SessShape, Grows
<1>2. ASSUME NEW i \in Calls, NEW status, NEW msgs, NEW draft, SessIs(i, status, msgs, draft),
             status # "none", msgs # <<>>, draft # None => status # "active", status = "confirmed" => board'.goal # None
      PROVE  SessShape'
  <2>1. newest' = i /\ newest' # None
    BY <1>2, OnboardingAssumption DEF SessIs
  <2>2. sess'[i].status = status /\ sess'[i].msgs = msgs /\ sess'[i].draft = draft /\ \A k \in Calls : k # i => sess'[k] = sess[k]
    BY <1>2 DEF SessIs
  <2> QED
    BY <1>0, <1>2, <2>1, <2>2 DEF SessShape, Grows
<1>3. CASE StoreAnswerIs(r)
  <2>1. /\ call[r].sid \in Calls /\ sess[call[r].sid].status # "none" /\ call[r].msgs # <<>>
        /\ SessIs(call[r].sid, sess[call[r].sid].status, call[r].msgs, sess[call[r].sid].draft)
    BY <1>3, OnboardingAssumption DEF StoreAnswerIs, SessIs, Shape, CallShape, CallFits, Running
  <2>2. board' = board
    BY <1>3 DEF StoreAnswerIs
  <2> QED
    BY <1>0, <1>2, <2>1, <2>2 DEF SessShape
<1>4. CASE StoreNewIs(r)
  BY <1>2, <1>4, NoMessages DEF StoreNewIs
<1>5. CASE StoreConfirmIs(r)
  <2> DEFINE i == call[r].sid
  <2>1. i \in Calls /\ i # None
    BY <1>5, OnboardingAssumption DEF StoreConfirmIs, SessIs
  <2>2. sess[i].status # "none" /\ sess[i].msgs # <<>> /\ board'.goal # None
    BY <1>0, <1>5, <2>1 DEF StoreConfirmIs, Shape, CallShape, CallFits, SessShape, Running
  <2>3. PICK st : /\ SessIs(i, st, sess[i].msgs, sess[i].draft) /\ st \in {sess[i].status, "confirmed"}
    BY <1>5 DEF StoreConfirmIs
  <2> QED
    BY <1>0, <1>2, <2>1, <2>2, <2>3 DEF SessShape
<1>6. CASE StoreReplyIs(r)
  <2> DEFINE i == reply[r].sid
  <2>1. i \in Calls /\ sess[i].status # "none" /\ (reply[r].status = "completed" => sess[i].status # "active")
    BY <1>6 DEF StoreReplyIs, Shape, ReplyShape, ReplyFits
  <2>2. PICK st, dr : /\ SessIs(i, st, Append(reply[r].msgs, By("agent", r)), dr)
                      /\ \/ reply[r].kind = "question" /\ st = sess[i].status /\ dr = sess[i].draft
                         \/ reply[r].kind # "question" /\ st = IF reply[r].status = "completed" THEN sess[i].status ELSE "completed"
    BY <1>6 DEF StoreReplyIs
  <2>3. Append(reply[r].msgs, By("agent", r)) # <<>>
    BY AppendIs, Types
  <2>4. board' = board
    BY <1>6 DEF StoreReplyIs
  <2>5. st # "none" /\ (dr # None => st # "active") /\ (st = "confirmed" => board'.goal # None)
    BY <1>0, <2>1, <2>2, <2>4 DEF SessShape
  <2> QED
    BY <1>2, <2>1, <2>2, <2>3, <2>5
<1>7. (sess' = sess /\ (newest' = newest \/ StoreTouchIs(r))) \/ StoreAnswerIs(r) \/ StoreNewIs(r) \/ StoreConfirmIs(r) \/ StoreReplyIs(r)
  BY DEF StepOf, SendIs, StoreTouchIs, RefreshIs, FailIs,
         LoadRefusedIs, LoadIs, OpenIs, AnswerIs, ConfirmIs, ArriveShownIs, ArriveClosesIs, ArriveFailedIs
<1> QED
  BY <1>1, <1>3, <1>4, <1>5, <1>6, <1>7

\* A step keeps the shape of the requests.
LEMMA CallShapeStep ==
    ASSUME TypeOK, Shape, TypeOK', NEW r \in Calls, StepOf(r)
    PROVE  CallShape'
<1>0. /\ Grows /\ CallShape /\ CallFits(r)
      /\ \A q \in Calls : q # r => call'[q] = call[q] /\ reply'[q] = reply[q]
      /\ \A i \in Calls : sess[i].status = "none" /\ sess'[i].status # "none" => i = r /\ call'[r].pc = "refresh"
  BY GrowsStep DEF Shape, CallShape
<1>1. rev \in Nat /\ rev' \in Nat
  BY DEF TypeOK
<1>2. \A q \in Calls : call[q].sid \in Calls \cup {None} /\ call[q].got.n \in Nat
  BY Types
<1>3. ASSUME NEW q \in Calls, call'[q] = call[q], reply'[q] = reply[q], CallFits(q), sess[q].status = "none" => sess'[q].status = "none"
      PROVE  CallFits(q)'
  BY <1>0, <1>1, <1>2, <1>3 DEF CallFits, Running, Grows
<1>4. CallFits(r)'
  <2> USE DEF CallIs, ReplyIs
  <2>1. CASE SendIs(r)
    BY <1>0, <2>1 DEF SendIs, Goes, Hears, CallFits, Running
  <2>2. CASE StoreAnswerIs(r)
    <3>1. call'[r].kind = "answer" /\ call'[r].pc = "refresh" /\ call'[r].sid = call[r].sid /\ call'[r].msgs = <<>>
      BY <2>2 DEF StoreAnswerIs
    <3>2. reply' = reply /\ call[r].pc = "store" /\ call[r].kind = "answer"
      BY <2>2 DEF StoreAnswerIs
    <3> QED
      BY <1>0, <1>2, <3>1, <3>2 DEF CallFits, Running, Grows
  <2>3. CASE StoreTouchIs(r)
    BY <1>0, <2>3, NoMessages DEF StoreTouchIs, CallFits, Running
  <2>4. CASE StoreNewIs(r)
    BY <1>0, <2>4, OnboardingAssumption DEF StoreNewIs, SessIs, CallFits, Running
  <2>5. CASE RefreshIs(r) /\ call[r].sid \in Calls
    <3>1. Reads(call[r].sid).n = rev /\ Reads(call[r].sid).s = sess[call[r].sid]
      BY DEF Reads
    <3> QED
      BY <1>0, <1>1, <2>5, <3>1, OnboardingAssumption DEF RefreshIs, CallFits, Running
  <2>6. CASE StoreConfirmIs(r)
    <3>1. call'[r].kind = "confirm" /\ call'[r].pc = "answered" /\ call'[r].sid = call[r].sid /\ call'[r].got = call[r].got
          /\ call'[r].msgs = call[r].msgs
      BY <2>6 DEF StoreConfirmIs, Goes
    <3>2. reply' = reply /\ board'.goal # None
      BY <1>0, <2>6 DEF StoreConfirmIs, CallFits
    <3> QED
      BY <1>0, <1>1, <1>2, <2>6, <3>1, <3>2 DEF StoreConfirmIs, CallFits, Running, Grows
  <2>7. CASE FailIs(r)
    BY <1>0, <2>7 DEF FailIs, Ended, CallFits, Running, Hears
  <2>8. CASE LoadRefusedIs(r)
    BY <1>0, <2>8 DEF LoadRefusedIs, CallFits, Running
  <2>9. CASE LoadIs(r)
    BY <1>0, <2>9 DEF LoadIs, CallFits, Running
  <2>10. CASE StoreReplyIs(r)
    <3>1. call' = call /\ board' = board /\ reply[r].pc # "none" /\ reply'[r].pc # "none"
      BY <2>10 DEF StoreReplyIs
    <3>2. call[r].pc # "refresh" => sess'[r].status = "none" \/ sess[r].status # "none"
      BY <1>0, <3>1
    <3> QED
      BY <1>0, <1>1, <1>2, <3>1, <3>2 DEF CallFits, Running, Grows
  <2>11. CASE OpenIs(r)
    <3>1. \A i \in Active : i # None /\ sess[i].status # "none" /\ Reads(i).n = rev /\ Reads(i).s = sess[i]
      BY OnboardingAssumption DEF Active, Reads
    <3> QED
      BY <1>0, <1>1, <2>11, <3>1 DEF OpenIs, CallFits, Running
  <2>12. CASE AnswerIs(r)
    <3>1. Append(sess[newest].msgs, By("user", r)) # <<>>
      BY <2>12, Types, AppendIs DEF AnswerIs
    <3>2. newest # None /\ sess[newest].status # "none"
      BY <2>12, OnboardingAssumption DEF AnswerIs, Shape, SessShape
    <3> QED
      BY <1>0, <1>1, <2>12, <3>1, <3>2 DEF AnswerIs, CallFits, Running
  <2>13. CASE ConfirmIs(r)
    <3>1. newest # None /\ sess[newest].status # "none" /\ page.view.draft # None
          /\ Reads(newest).n = rev /\ Reads(newest).s = sess[newest]
      BY <2>13, OnboardingAssumption DEF ConfirmIs, Shape, SessShape, Drafted, Reads
    <3> QED
      BY <1>0, <1>1, <2>13, <3>1 DEF ConfirmIs, CallFits, Running
  <2>14. CASE ArriveShownIs(r)
    BY <1>0, <2>14 DEF ArriveShownIs, Ended, CallFits, Running
  <2>15. CASE ArriveClosesIs(r)
    BY <1>0, <2>15 DEF ArriveClosesIs, Ended, CallFits, Running
  <2>16. CASE ArriveFailedIs(r)
    BY <1>0, <2>16 DEF ArriveFailedIs, CallFits, Running
  <2> QED
    BY <2>1, <2>2, <2>3, <2>4, <2>5, <2>6, <2>7, <2>8, <2>9, <2>10, <2>11, <2>12, <2>13, <2>14, <2>15, <2>16 DEF StepOf
<1> QED
  BY <1>0, <1>3, <1>4 DEF CallShape

\* A step keeps the shape of the replies.
LEMMA ReplyShapeStep ==
    ASSUME TypeOK, Shape, TypeOK', NEW r \in Calls, StepOf(r)
    PROVE  ReplyShape'
<1>0. /\ Grows /\ ReplyShape /\ SessShape /\ CallFits(r)
      /\ \A q \in Calls : q # r => reply'[q] = reply[q]
      /\ \A q \in Calls : reply[q].sid \in Calls \cup {None}
  BY GrowsStep, Types DEF Shape, CallShape
<1>1. \A i \in Calls : sess[i].status # "none" /\ sess[i].status # "active" => sess'[i].status # "active"
  <2>1. CASE sess' = sess
    BY <2>1
  <2>2. CASE StoreAnswerIs(r)
    BY <2>2 DEF StoreAnswerIs, SessIs
  <2>3. CASE StoreNewIs(r)
    BY <1>0, <2>3 DEF StoreNewIs, SessIs, CallFits
  <2>4. CASE StoreConfirmIs(r)
    BY <2>4 DEF StoreConfirmIs, SessIs
  <2>5. CASE StoreReplyIs(r)
    BY <2>5 DEF StoreReplyIs, SessIs
  <2> QED
    BY <2>1, <2>2, <2>3, <2>4, <2>5 DEF StepOf, SendIs, StoreTouchIs, RefreshIs, FailIs,
         LoadRefusedIs, LoadIs, OpenIs, AnswerIs, ConfirmIs, ArriveShownIs, ArriveClosesIs, ArriveFailedIs
<1>2. ASSUME NEW q \in Calls, reply'[q] = reply[q]
      PROVE  ReplyFits(q)'
  BY <1>0, <1>1, <1>2 DEF ReplyShape, ReplyFits, Grows
<1>3. ReplyFits(r)'
  <2> USE DEF ReplyIs
  <2>1. CASE Hears(r) /\ call[r].pc = "send"
    BY <1>0, <2>1 DEF Hears, ReplyFits, ReplyShape, CallFits
  <2>2. CASE LoadRefusedIs(r)
    BY <1>0, <2>2 DEF LoadRefusedIs, ReplyFits, SessShape, Grows
  <2>3. CASE LoadIs(r)
    <3>1. newest # None /\ sess[newest].status # "none" /\ sess' = sess
      BY <1>0, <2>3, OnboardingAssumption DEF LoadIs, SessShape
    <3> QED
      BY <2>3, <3>1 DEF LoadIs, ReplyFits
  <2>4. CASE StoreReplyIs(r)
    BY <2>4 DEF StoreReplyIs, ReplyFits
  <2>5. CASE reply'[r] = reply[r]
    BY <1>2, <2>5
  <2> QED
    BY <2>1, <2>2, <2>3, <2>4, <2>5 DEF StepOf, SendIs, StoreAnswerIs, StoreTouchIs, StoreNewIs, RefreshIs, StoreConfirmIs, FailIs,
         OpenIs, AnswerIs, ConfirmIs, ArriveShownIs, ArriveClosesIs, ArriveFailedIs
<1> QED
  BY <1>2, <1>3, <1>0 DEF ReplyShape

\* A step keeps the shape of the page.
LEMMA PageShapeStep ==
    ASSUME TypeOK, Shape, TypeOK', NEW r \in Calls, StepOf(r)
    PROVE  PageShape'
<1>0. /\ Grows /\ PageShape /\ SessShape /\ CallFits(r) /\ r # None
      /\ (sess' = sess /\ newest' = newest /\ rev' = rev) \/ rev' = rev + 1
      /\ \A q \in Calls : q # r => call'[q] = call[q]
  BY GrowsStep, OnboardingAssumption DEF Shape, CallShape
<1>1. rev \in Nat /\ rev' \in Nat /\ page.n \in Nat /\ \A g \in gets : g.n \in Nat
  BY Types DEF TypeOK, Reading
<1>2. ASSUME gets' = gets
      PROVE  \A g \in gets' : g.n <= rev' /\ g.s.status # "none" /\ (g.n = rev' => g.s = sess'[newest'])
  BY <1>0, <1>1, <1>2 DEF PageShape
<1>3. ASSUME page' = page, gets' = gets, call'[r].kind = call[r].kind, call'[r].pc \notin {"new", "ok"} \/ call'[r] = call[r]
      PROVE  PageShape'
  <2>1. page.n <= rev'
    BY <1>0, <1>1 DEF PageShape
  <2> QED
    BY <1>0, <1>2, <1>3, <2>1 DEF PageShape, Grows
<1>4. ASSUME page' = Closed, gets' = gets
      PROVE  PageShape'
  <2>1. Closed.awaiting = None /\ Closed.view = NoSession /\ Closed.n = 0 /\ Closed.cur = None
    BY DEF Closed
  <2>2. gets # {} => newest # None
    BY <1>0 DEF PageShape
  <2> QED
    BY <1>0, <1>1, <1>2, <1>4, <2>1, <2>2, OnboardingAssumption DEF PageShape, Grows
<1>5. CASE SendIs(r)
  BY <1>3, <1>5 DEF SendIs, Goes, CallIs
<1>6. CASE StoreAnswerIs(r)
  BY <1>3, <1>6 DEF StoreAnswerIs, CallIs
<1>7. CASE StoreTouchIs(r)
  BY <1>3, <1>7 DEF StoreTouchIs, CallIs
<1>8. CASE StoreNewIs(r)
  BY <1>3, <1>8 DEF StoreNewIs, CallIs
<1>9. CASE RefreshIs(r)
  BY <1>3, <1>9 DEF RefreshIs, CallIs
<1>10. CASE StoreConfirmIs(r)
  BY <1>3, <1>10 DEF StoreConfirmIs, Goes, CallIs
<1>11. CASE FailIs(r)
  BY <1>3, <1>11 DEF FailIs, Ended, CallIs
<1>12. CASE LoadRefusedIs(r) \/ LoadIs(r) \/ StoreReplyIs(r)
  BY <1>3, <1>12 DEF LoadRefusedIs, LoadIs, StoreReplyIs
<1>13. CASE OpenIs(r)
  <2>1. /\ page'.open /\ page'.view = NoSession /\ page'.n = 0 /\ page'.cur = r /\ page'.awaiting = None
        /\ gets' = gets /\ call'[r].pc \in {"send", "answered"}
    BY <1>13 DEF OpenIs, PageIs, CallIs
  <2>2. gets # {} => newest # None
    BY <1>0 DEF PageShape
  <2> QED
    BY <1>0, <1>1, <1>2, <2>1, <2>2 DEF PageShape, Grows
<1>14. CASE AnswerIs(r)
  <2>1. /\ page'.open /\ page'.view = page.view /\ page'.n = page.n /\ page'.cur = r /\ page'.awaiting = None
        /\ gets' = gets /\ call'[r].pc = "send"
    BY <1>14 DEF AnswerIs, PageIs, CallIs
  <2> QED
    BY <1>0, <1>1, <1>2, <2>1 DEF PageShape, Grows
<1>15. CASE ConfirmIs(r)
  <2>1. /\ page'.open /\ page'.view = page.view /\ page'.n = page.n /\ page'.cur = r /\ page'.awaiting = page.awaiting
        /\ gets' = gets /\ call'[r].pc = "store" /\ call'[r].kind = "confirm"
    BY <1>15 DEF ConfirmIs, PageIs, CallIs
  <2> QED
    BY <1>0, <1>1, <1>2, <2>1 DEF PageShape, Grows
<1>16. CASE ArriveShownIs(r)
  <2> DEFINE s == call[r].got.s
  <2>1. /\ page.cur = r /\ page'.open = page.open /\ page'.view = s /\ page'.n = call[r].got.n /\ page'.cur = None
        /\ page'.awaiting = Still(s, Awaited(r)) /\ gets' = gets /\ call[r].pc = "answered"
    BY <1>16 DEF ArriveShownIs, ShownIs, PageIs
  <2>2. page.open
    BY <1>0, <2>1 DEF PageShape, Closed
  <2>3. call[r].got.n <= rev /\ s.status # "none"
    BY <1>0, <2>1 DEF CallFits
  <2>4. s # NoSession
    BY <2>3 DEF NoSession
  <2>5. newest # None
    BY <1>0, <2>1, Types DEF CallFits, Running, SessShape
  <2>6. page'.awaiting # None => LastAgent(s.msgs) = page'.awaiting
    BY <2>1 DEF Still
  <2>7. page'.n <= rev'
    BY <1>0, <1>1, <2>1, <2>3, Types
  <2> QED
    BY <1>0, <1>2, <2>1, <2>2, <2>4, <2>5, <2>6, <2>7, OnboardingAssumption DEF PageShape, Grows
<1>17. CASE ArriveClosesIs(r)
  BY <1>4, <1>17 DEF ArriveClosesIs
<1>18. CASE ArriveFailedIs(r)
  <2>1. /\ page.cur = r /\ page'.open = page.open /\ page'.view = page.view /\ page'.n = page.n /\ page'.cur = None
        /\ page'.awaiting = page.awaiting /\ gets' = gets
    BY <1>18 DEF ArriveFailedIs, PageIs
  <2>2. page.open
    BY <1>0, <2>1 DEF PageShape, Closed
  <2> QED
    BY <1>0, <1>1, <1>2, <2>1, <2>2, OnboardingAssumption DEF PageShape, Grows
<1> QED
  BY <1>5, <1>6, <1>7, <1>8, <1>9, <1>10, <1>11, <1>12, <1>13, <1>14, <1>15, <1>16, <1>17, <1>18 DEF StepOf

\* Where the messages of a list come from.
LEMMA StoredStep ==
    ASSUME TypeOK, Shape, TypeOK', NEW r \in Calls, StepOf(r)
    PROVE  /\ \A x \in Calls : Kept(x)' => Kept(x) \/ (StoreReplyIs(r) /\ x = r)
           /\ Stored'
<1>0. /\ Grows /\ Stored /\ CallFits(r) /\ r # None
      /\ \A q \in Calls : q # r => call'[q] = call[q] /\ reply'[q] = reply[q]
      /\ Replies(<<>>) = {}
  BY GrowsStep, OnboardingAssumption, NoMessages DEF Shape, CallShape
<1>1. \A x \in Calls : Kept(x)' => Kept(x) \/ (StoreReplyIs(r) /\ x = r)
  <2> USE DEF CallIs, ReplyIs
  <2> SUFFICES ASSUME NEW x \in Calls, NEW q \in Calls,
                      x \in Replies(sess'[q].msgs) \cup Replies(call'[q].msgs) \cup Replies(reply'[q].msgs)
               PROVE  Kept(x) \/ (StoreReplyIs(r) /\ x = r)
    BY DEF Kept
  <2>1. ASSUME sess' = sess, call'[r].msgs \in {<<>>, call[r].msgs}, reply'[r].msgs \in {<<>>, reply[r].msgs}
        PROVE  Kept(x)
    BY <1>0, <2>1 DEF Kept
  <2>2. ASSUME NEW i \in Calls, NEW st, NEW ms, NEW dr, SessIs(i, st, ms, dr), x \in Replies(sess'[q].msgs)
        PROVE  Kept(x) \/ x \in Replies(ms)
    BY <2>2 DEF Kept, SessIs
  <2>3. CASE SendIs(r)
    BY <2>1, <2>3 DEF SendIs, Goes, Hears
  <2>4. CASE StoreAnswerIs(r)
    <3>1. /\ SessIs(call[r].sid, sess[call[r].sid].status, call[r].msgs, sess[call[r].sid].draft)
          /\ call'[r].msgs = <<>> /\ reply' = reply /\ call[r].sid \in Calls
      BY <2>4 DEF StoreAnswerIs, SessIs
    <3> QED
      BY <1>0, <2>2, <3>1 DEF Kept
  <2>5. CASE StoreTouchIs(r)
    BY <2>1, <2>5 DEF StoreTouchIs
  <2>6. CASE StoreNewIs(r)
    <3>1. /\ SessIs(r, "active", <<By("user", r)>>, None)
          /\ call'[r].msgs = <<>> /\ reply' = reply
      BY <2>6 DEF StoreNewIs
    <3> QED
      BY <1>0, <2>2, <3>1, NoMessages DEF Kept
  <2>7. CASE RefreshIs(r)
    BY <2>1, <2>7 DEF RefreshIs
  <2>8. CASE StoreConfirmIs(r)
    <3>1. PICK st, dr : SessIs(call[r].sid, st, sess[call[r].sid].msgs, dr)
      BY <2>8 DEF StoreConfirmIs
    <3>2. call'[r].msgs = call[r].msgs /\ reply' = reply /\ call[r].sid \in Calls
      BY <2>8, <3>1 DEF StoreConfirmIs, Goes, SessIs
    <3> QED
      BY <1>0, <2>2, <3>1, <3>2 DEF Kept
  <2>9. CASE FailIs(r)
    BY <2>1, <2>9 DEF FailIs, Ended, Hears
  <2>10. CASE LoadRefusedIs(r)
    BY <2>1, <2>10 DEF LoadRefusedIs
  <2>11. CASE LoadIs(r)
    <3>1. sess' = sess /\ call' = call /\ reply'[r].msgs = sess[newest].msgs /\ newest \in Calls
      BY <2>11 DEF LoadIs
    <3> QED
      BY <1>0, <3>1 DEF Kept
  <2>12. CASE StoreReplyIs(r)
    <3>1. PICK st, dr, ms : SessIs(reply[r].sid, st, ms, dr) /\ ms = Append(reply[r].msgs, By("agent", r))
      BY <2>12 DEF StoreReplyIs
    <3>2. call' = call /\ reply'[r].msgs = <<>> /\ reply[r].sid \in Calls
      BY <2>12 DEF StoreReplyIs
    <3>3. Replies(ms) = Replies(reply[r].msgs) \cup {r}
      BY <3>1, AppendIs, Types
    <3> QED
      BY <1>0, <2>2, <2>12, <3>1, <3>2, <3>3 DEF Kept
  <2>13. CASE OpenIs(r)
    BY <2>1, <2>13 DEF OpenIs
  <2>14. CASE AnswerIs(r)
    <3>1. sess' = sess /\ reply' = reply /\ newest \in Calls
      BY <2>14 DEF AnswerIs
    <3>2. call'[r].msgs = Append(sess[newest].msgs, By("user", r)) /\ sess[newest].msgs \in Seq(Entry)
      BY <2>14, Types DEF AnswerIs
    <3>3. Replies(call'[r].msgs) = Replies(sess[newest].msgs)
      BY <3>2, AppendIs
    <3> QED
      BY <1>0, <3>1, <3>3 DEF Kept
  <2>15. CASE ConfirmIs(r)
    BY <2>1, <2>15 DEF ConfirmIs
  <2>16. CASE ArriveShownIs(r)
    BY <2>1, <2>16 DEF ArriveShownIs, Ended
  <2>17. CASE ArriveClosesIs(r)
    BY <2>1, <2>17 DEF ArriveClosesIs, Ended
  <2>18. CASE ArriveFailedIs(r)
    BY <2>1, <2>18 DEF ArriveFailedIs
  <2> QED
    BY <2>3, <2>4, <2>5, <2>6, <2>7, <2>8, <2>9, <2>10, <2>11, <2>12, <2>13, <2>14, <2>15, <2>16, <2>17, <2>18 DEF StepOf
<1>2. \A x \in Calls : Kept(x) => reply'[x].pc = "ok"
  BY <1>0 DEF Kept, Stored, Grows
<1>3. StoreReplyIs(r) => reply'[r].pc = "ok"
  BY DEF StoreReplyIs, ReplyIs
<1>4. Stored'
  BY <1>1, <1>2, <1>3 DEF Kept, Stored
<1> QED
  BY <1>1, <1>4

\* An update nobody asked for only adds a reply that is under way.
LEMMA SpeakShape ==
    ASSUME TypeOK, Shape, TypeOK', NEW r \in Calls, SpeakIs(r)
    PROVE  /\ Shape'
           /\ \A x \in Calls : reply[x].pc = "ok" => reply'[x].pc = "ok" /\ (Kept(x)' => Kept(x))
<1>1. /\ call[r].pc = "new" /\ CallFits(r) /\ reply[r].pc = "none" /\ call[r].kind # "confirm" /\ newest \in Calls /\ newest # None
      /\ sess[newest].status # "none" /\ rev \in Nat
  BY Types, OnboardingAssumption DEF SpeakIs, Shape, CallShape, CallFits, SessShape
<1>2. /\ call'[r].kind = call[r].kind /\ call'[r].pc = "ok" /\ call'[r].msgs = <<>>
      /\ \A q \in Calls : q # r => call'[q] = call[q] /\ reply'[q] = reply[q]
      /\ reply'[r].pc = "store" /\ reply'[r].sid = newest /\ reply'[r].msgs = sess[newest].msgs /\ reply'[r].status = sess[newest].status
      /\ UNCHANGED <<sess, newest, rev, board, page, gets>>
  BY DEF SpeakIs, Ended, CallIs, ReplyIs
<1>3. CallShape'
  <2>1. CallFits(r)'
    BY <1>1, <1>2 DEF CallFits, Running
  <2>2. ASSUME NEW q \in Calls, q # r PROVE CallFits(q)'
    <3>1. CallFits(q) /\ call'[q] = call[q] /\ reply'[q] = reply[q]
      BY <1>2, <2>2 DEF Shape, CallShape
    <3> QED
      BY <1>2, <3>1 DEF CallFits, Running
  <2> QED
    BY <2>1, <2>2 DEF CallShape
<1>4. ReplyShape'
  <2>1. ReplyFits(r)'
    BY <1>1, <1>2 DEF ReplyFits
  <2>2. ASSUME NEW q \in Calls, q # r PROVE ReplyFits(q)'
    <3>1. ReplyFits(q) /\ reply'[q] = reply[q]
      BY <1>2, <2>2 DEF Shape, ReplyShape
    <3> QED
      BY <1>2, <3>1 DEF ReplyFits
  <2> QED
    BY <2>1, <2>2 DEF ReplyShape
<1>5. SessShape'
  BY <1>2 DEF Shape, SessShape
<1>6. PageShape'
  <2>1. page.cur # r
    BY <1>1 DEF Shape, PageShape
  <2>2. \A q \in Calls : page'.cur = q => call'[q] = call[q]
    BY <1>2, <2>1
  <2> QED
    BY <1>2, <2>2 DEF Shape, PageShape
<1>7. \A x \in Calls : reply[x].pc = "ok" => reply'[x].pc = "ok"
  BY <1>1, <1>2
<1>8. \A x \in Calls : Kept(x)' => Kept(x)
  <2> SUFFICES ASSUME NEW x \in Calls, NEW q \in Calls,
                      x \in Replies(sess'[q].msgs) \cup Replies(call'[q].msgs) \cup Replies(reply'[q].msgs)
               PROVE  Kept(x)
    BY DEF Kept
  <2>1. CASE q = r
    BY <1>1, <1>2, <2>1, NoMessages DEF Kept
  <2>2. CASE q # r
    BY <1>2, <2>2 DEF Kept
  <2> QED
    BY <2>1, <2>2
<1>9. Stored'
  <2>1. \A x \in Calls : Kept(x) => reply'[x].pc = "ok"
    BY <1>7 DEF Kept, Shape, Stored
  <2> QED
    BY <1>8, <2>1 DEF Kept, Stored
<1> QED
  BY <1>3, <1>4, <1>5, <1>6, <1>7, <1>8, <1>9 DEF Shape

\* Every step keeps the types and the shapes.
LEMMA ShapeStep ==
    ASSUME TypeOK, Shape, [Next]_vars
    PROVE  TypeOK' /\ Shape'
<1>1. TypeOK'
  BY NextIs
<1>2. ASSUME sess' = sess, newest' = newest, rev' = rev, call' = call, reply' = reply, board' = board, PageShape'
      PROVE  Shape'
  <2>1. CallShape'
    BY <1>2 DEF Shape, CallShape, CallFits, Running
  <2>2. ReplyShape'
    BY <1>2 DEF Shape, ReplyShape, ReplyFits
  <2>3. SessShape'
    BY <1>2 DEF Shape, SessShape
  <2>4. Stored'
    BY <1>2 DEF Shape, Stored
  <2> QED
    BY <1>2, <2>1, <2>2, <2>3, <2>4 DEF Shape
<1>3. CASE StaysIs
  <2>1. PageShape'
    BY <1>3 DEF StaysIs, Shape, PageShape
  <2> QED
    BY <1>1, <1>2, <1>3, <2>1 DEF StaysIs
<1>4. \A g \in gets : g.n \in Nat /\ g.s.status # "none" /\ newest # None
  BY DEF TypeOK, Reading, Shape, PageShape
<1>5. CASE CloseIs
  <2>1. page'.open = FALSE /\ page'.awaiting = None /\ page'.view = NoSession /\ page'.n = 0 /\ page'.cur = None
        /\ page' = Closed /\ gets' = {} /\ rev' = rev /\ rev \in Nat
    BY <1>5, Types DEF CloseIs, Closed
  <2>2. PageShape'
    BY <2>1, OnboardingAssumption DEF PageShape
  <2> QED
    BY <1>1, <1>2, <1>5, <2>2 DEF CloseIs
<1>6. CASE PollIs
  <2>1. Reads(newest).n = rev /\ Reads(newest).s = sess[newest] /\ newest # None /\ sess[newest].status # "none"
    BY <1>6, OnboardingAssumption DEF PollIs, Reads, Shape, SessShape
  <2>2. \A g \in gets' : g \in gets \/ g = Reads(newest)
    BY <1>6 DEF PollIs
  <2>3. UNCHANGED <<sess, newest, rev, call, page>>
    BY <1>6 DEF PollIs
  <2>4. PageShape'
    BY <2>1, <2>2, <2>3, Types DEF Shape, PageShape
  <2> QED
    BY <1>1, <1>2, <1>6, <2>4 DEF PollIs
<1>7. CASE \E got \in gets : GetIs(got)
  <2>1. PICK got \in gets : GetIs(got)
    BY <1>7
  <2>2. /\ page.open /\ page'.open = page.open /\ page'.view = got.s /\ page'.n = got.n /\ page'.cur = page.cur
        /\ page'.awaiting = Still(got.s, page.awaiting) /\ gets' \subseteq gets
        /\ UNCHANGED <<sess, newest, rev, call, reply, board>>
    BY <2>1 DEF GetIs, ShownIs, PageIs
  <2>3. got.s # NoSession
    BY <1>4 DEF NoSession
  <2>4. page'.awaiting # None => page'.awaiting = page.awaiting /\ LastAgent(got.s.msgs) = page'.awaiting
    BY <2>2 DEF Still
  <2>5. PageShape /\ rev \in Nat /\ got \in gets
    BY <2>1, Types DEF Shape
  <2>6. page'.n <= rev' /\ page'.view # NoSession /\ newest' # None
    BY <1>4, <2>2, <2>3, <2>5 DEF PageShape
  <2>7. page'.awaiting # None => page'.awaiting = page.awaiting
    BY <2>4
  <2>8. PageShape'
    BY <2>2, <2>4, <2>5, <2>6, <2>7 DEF PageShape
  <2> QED
    BY <1>1, <1>2, <2>2, <2>8
<1>8. CASE \E r \in Calls : StepOf(r)
  BY <1>1, <1>8, CallShapeStep, ReplyShapeStep, SessShapeStep, PageShapeStep, StoredStep DEF Shape
<1>9. CASE \E r \in Calls : SpeakIs(r)
  BY <1>1, <1>9, SpeakShape
<1> QED
  BY <1>1, <1>3, <1>5, <1>6, <1>7, <1>8, <1>9, NextIs

\* The initial states have them.
LEMMA ShapeInit == Init => TypeOK /\ Shape
<1> SUFFICES ASSUME Init PROVE TypeOK /\ Shape
  OBVIOUS
<1>1. NoSession \in Session /\ NewCall \in CallState /\ NoReply \in ReplyState /\ Closed \in PageState
  BY NoMessages DEF NoSession, Session, NewCall, CallState, NoReply, ReplyState, Closed, PageState, Reading
<1>2. TypeOK
  BY <1>1 DEF Init, TypeOK
<1>3. /\ \A r \in Calls : call[r] = NewCall /\ reply[r] = NoReply /\ sess[r] = NoSession
      /\ page = Closed /\ gets = {} /\ newest = None /\ rev = 0
  BY DEF Init
<1>4. CallShape
  BY <1>3 DEF CallShape, CallFits, Running, NewCall, NoReply, NoSession
<1>5. ReplyShape /\ SessShape
  BY <1>3 DEF ReplyShape, ReplyFits, SessShape, NoReply, NoSession
<1>6. PageShape
  BY <1>3, OnboardingAssumption DEF PageShape, Closed
<1>7. Stored
  BY <1>3, NoMessages DEF Stored, NewCall, NoReply, NoSession
<1> QED
  BY <1>2, <1>4, <1>5, <1>6, <1>7 DEF Shape

\* Every dialog keeps its types.
THEOREM TypeCorrect == Spec => []TypeOK
<1>1. TypeOK /\ Shape /\ [Next]_vars => (TypeOK /\ Shape)'
  BY ShapeStep
<1> QED
  BY <1>1, ShapeInit, PTL DEF Spec
-----------------------------------------------------------------------------
(* What the steps mean while the dialog is not broken *)

\* What was not asked for has been sent for good.
LEMMA UnaskedStays == ASSUME [Next]_vars, unasked PROVE unasked'
BY DEF Next, vars, Close, Poll, Open, Answer, Confirm, Arrive, Handler, Send, Store, StoreConfirm, Refresh, Fail, Speak,
       LoadReply, StoreReply, GetArrives

LEMMA BrokenStays ==
    ASSUME TypeOK, Shape, [Next]_vars, ~Broken'
    PROVE  ~Broken
<1>1. rough => rough'
  BY NextIs DEF StaysIs, SpeakIs, CloseIs, PollIs, GetIs, StepOf, SendIs, StoreAnswerIs, StoreTouchIs, StoreNewIs, RefreshIs, StoreConfirmIs,
     FailIs, LoadRefusedIs, LoadIs, StoreReplyIs, OpenIs, AnswerIs, ConfirmIs, ArriveShownIs, ArriveClosesIs, ArriveFailedIs
<1>2. ASSUME NEW x \in Calls, reply[x].pc = "ok", ~Kept(x)
      PROVE  reply'[x].pc = "ok" /\ ~Kept(x)'
  <2>1. CASE sess' = sess /\ call' = call /\ reply' = reply
    BY <1>2, <2>1 DEF Kept
  <2>2. ASSUME NEW r \in Calls, StepOf(r)
        PROVE  reply'[x].pc = "ok" /\ ~Kept(x)'
    <3>1. reply'[x].pc = "ok"
      BY <1>2, <2>2, GrowsStep DEF Grows
    <3>2. StoreReplyIs(r) => r # x
      BY <1>2 DEF StoreReplyIs
    <3>3. TypeOK'
      BY NextIs
    <3> QED
      BY <1>2, <2>2, <3>1, <3>2, <3>3, StoredStep
  <2>3. ASSUME NEW r \in Calls, SpeakIs(r)
        PROVE  reply'[x].pc = "ok" /\ ~Kept(x)'
    BY <1>2, <2>3, SpeakShape, NextIs
  <2> QED
    BY <2>1, <2>2, <2>3, NextIs DEF StaysIs, CloseIs, PollIs, GetIs
<1> QED
  BY <1>1, <1>2, UnaskedStays DEF Broken

\* A request that runs is the one the page waits for, and the only one.
LEMMA RunningIs ==
    ASSUME TypeOK, Shape, Turns, NEW r \in Calls, Running(r)
    PROVE  /\ page.open /\ page.cur = r /\ r # None
           /\ Out \subseteq {r} /\ (~Told(r) => Out = {})
           /\ \A q \in Calls : Running(q) => q = r
BY OnboardingAssumption DEF Turns

\* How a step about one reply changes what the agent has.
LEMMA OutIs ==
    ASSUME NEW r \in Calls, \A q \in Calls : q # r => reply'[q] = reply[q]
    PROVE  Out' = IF reply'[r].pc \in {"told", "store"} THEN Out \cup {r} ELSE Out \ {r}
BY DEF Out

\* The contents of the sessions stay.
Steady == \A i \in Calls : Latest(i)' = Latest(i) /\ Has(i)' = Has(i) /\ sess'[i].draft = sess[i].draft

\* The agent has nothing when it gets a message.
LEMMA SendMeans ==
    ASSUME TypeOK, Shape, Turns, NEW r \in Calls, SendIs(r)
    PROVE  Running(r) /\ Out = {} /\ Out' = {r} /\ reply[r].pc = "none" /\ reply'[r].pc = "told"
<1>1. Running(r) /\ reply[r].pc = "none" /\ reply'[r].pc = "told" /\ \A q \in Calls : q # r => reply'[q] = reply[q]
  BY DEF SendIs, Running, Shape, CallShape, CallFits, Hears, ReplyIs
<1>2. Out = {}
  BY <1>1, RunningIs DEF Told
<1> QED
  BY <1>1, <1>2, OutIs

\* The commit of an answer overwrites no reply: the dialog would be broken.
LEMMA StoreAnswerMeans ==
    ASSUME TypeOK, Shape, Turns, Threads, Copies, ~Broken', NEW r \in Calls, StoreAnswerIs(r)
    PROVE  /\ Running(r) /\ reply[r].pc # "none" /\ reply[r].pc # "ok"
           /\ call[r].sid = newest /\ newest' = newest /\ newest \in Calls
           /\ Steady /\ \A i \in Calls : sess'[i].status = sess[i].status /\ (i # newest => sess'[i] = sess[i])
           /\ Last(sess'[newest].msgs) = By("user", r)
           /\ Latest(newest) = call[r].about
<1> DEFINE i == call[r].sid
           m == call[r].msgs
<1>1. Running(r) /\ call[r].pc = "store" /\ call[r].kind = "answer" /\ AnswerCopy(r) /\ reply[r].pc # "none"
  BY DEF StoreAnswerIs, Running, Copies, Shape, CallShape, CallFits
<1>2. i \in Calls /\ newest = i /\ newest' = i /\ SessIs(i, sess[i].status, m, sess[i].draft)
  BY <1>1 DEF StoreAnswerIs, SessIs, AnswerCopy
<1>3. /\ sess'[i].status = sess[i].status /\ sess'[i].msgs = m /\ sess'[i].draft = sess[i].draft
      /\ \A k \in Calls : k # i => sess'[k] = sess[k]
  BY <1>2 DEF SessIs
<1>4. Out \subseteq {r} /\ \A q \in Calls : Running(q) => q = r
  BY <1>1, RunningIs
<1>5. reply[r].pc # "ok"
  <2> SUFFICES ASSUME reply[r].pc = "ok" PROVE FALSE
    OBVIOUS
  <2>1. r \in Has(i) /\ r \notin Replies(m)
    BY <1>1 DEF AnswerCopy
  <2>2. \A q \in Calls : r \notin Replies(sess'[q].msgs)
    BY <1>2, <1>3, <2>1 DEF Threads, Has
  <2>3. \A q \in Calls : call'[q].msgs = <<>>
    <3>1. call'[r].msgs = <<>> /\ \A q \in Calls : q # r => call'[q] = call[q]
      BY DEF StoreAnswerIs, CallIs
    <3>2. \A q \in Calls : q # r => call[q].msgs = <<>>
      BY <1>4 DEF Shape, CallShape, CallFits, Running
    <3> QED
      BY <3>1, <3>2
  <2>4. \A q \in Calls : reply[q].msgs = <<>>
    <3>1. \A q \in Calls : reply[q].pc # "store"
      BY <1>4 DEF Out
    <3> QED
      BY <3>1 DEF Shape, ReplyShape, ReplyFits
  <2>5. reply' = reply
    BY DEF StoreAnswerIs
  <2> QED
    BY <2>2, <2>3, <2>4, <2>5, NoMessages DEF Broken, Kept
<1>6. Latest(i) = call[r].about /\ LastAgent(m) = call[r].about /\ Last(m) = By("user", r)
  BY <1>1, <1>5 DEF AnswerCopy
<1>7. r \notin Has(i) /\ Replies(m) = Has(i)
  BY <1>1, <1>2, <1>5 DEF AnswerCopy, Shape, Stored, Has
<1>8. Steady
  BY <1>2, <1>3, <1>6, <1>7 DEF Steady, Latest, Has
<1> QED
  BY <1>1, <1>2, <1>3, <1>5, <1>6, <1>8

\* A session that is resumed has no message of the agent, or has its reply.
LEMMA StoreTouchMeans ==
    ASSUME TypeOK, Shape, Turns, Copies, NEW r \in Calls, StoreTouchIs(r)
    PROVE  /\ Running(r) /\ reply[r].pc # "none"
           /\ newest' = call[r].sid /\ newest' \in Calls /\ Active \subseteq {newest'}
           /\ Latest(newest') = None \/ reply[r].pc = "ok"
           /\ Steady
<1>1. Running(r) /\ call[r].pc = "store" /\ call[r].kind = "start" /\ StartCopy(r) /\ reply[r].pc # "none" /\ call[r].sid # None
  BY DEF StoreTouchIs, Running, Copies, Shape, CallShape, CallFits
<1>2. newest' = call[r].sid /\ newest' \in Calls /\ sess' = sess
  BY <1>1, Types DEF StoreTouchIs
<1> QED
  BY <1>1, <1>2 DEF StartCopy, Steady, Latest, Has

\* A session is made when none is active.
LEMMA StoreNewMeans ==
    ASSUME TypeOK, Shape, Turns, Copies, NEW r \in Calls, StoreNewIs(r)
    PROVE  /\ Running(r) /\ reply[r].pc # "none"
           /\ newest' = r /\ Active = {} /\ Active' = {r} /\ sess[r].status = "none"
           /\ Latest(r) = None /\ sess[r].draft = None
           /\ \A i \in Calls : i # r => sess'[i] = sess[i]
           /\ Steady
<1>1. Running(r) /\ call[r].pc = "store" /\ call[r].kind = "start" /\ StartCopy(r) /\ reply[r].pc # "none" /\ call[r].sid = None
      /\ sess[r].status = "none"
  BY DEF StoreNewIs, Running, Copies, Shape, CallShape, CallFits
<1>2. newest' = r /\ sess'[r].status = "active" /\ sess'[r].msgs = <<By("user", r)>> /\ sess'[r].draft = None
      /\ \A i \in Calls : i # r => sess'[i] = sess[i]
  BY DEF StoreNewIs, SessIs
<1>3. sess[r].msgs = <<>> /\ sess[r].draft = None
  BY <1>1 DEF Shape, SessShape
<1>4. Steady /\ Latest(r) = None
  BY <1>2, <1>3, NoMessages DEF Steady, Latest, Has
<1>5. Active = {} /\ Active' = {r}
  BY <1>1, <1>2 DEF StartCopy, Active
<1> QED
  BY <1>1, <1>2, <1>3, <1>4, <1>5

\* The goal and the draft that are stored agree.
LEMMA StoreConfirmMeans ==
    ASSUME TypeOK, Shape, Turns, Agreed, NEW r \in Calls, StoreConfirmIs(r)
    PROVE  /\ Running(r) /\ Out = {} /\ reply[r].pc = "none"
           /\ newest' = newest /\ newest \in Calls /\ Active' \subseteq Active
           /\ \A i \in Calls : sess'[i].msgs = sess[i].msgs /\ (sess'[i].status = "none" => sess[i].status = "none")
           /\ Steady
           /\ board'.goal = board'.lead
<1>1. Running(r) /\ call[r].pc = "store" /\ call[r].kind = "confirm" /\ reply[r].pc = "none"
      /\ call[r].about = call[r].got.s.draft /\ call[r].sid = newest
  BY DEF StoreConfirmIs, Running, Agreed, Shape, CallShape, CallFits
<1>2. Out = {}
  BY <1>1, RunningIs DEF Told
<1>3. PICK st : SessIs(newest, st, sess[newest].msgs, sess[newest].draft) /\ st \in {sess[newest].status, "confirmed"}
  BY <1>1 DEF StoreConfirmIs
<1>4. newest' = newest /\ newest \in Calls
      /\ \A i \in Calls : /\ sess'[i].msgs = sess[i].msgs /\ sess'[i].draft = sess[i].draft
                          /\ sess'[i].status \in {sess[i].status, "confirmed"}
  BY <1>3 DEF SessIs
<1>5. Steady
  BY <1>4 DEF Steady, Latest, Has
<1>6. Active' \subseteq Active
  BY <1>4 DEF Active
<1>7. \A i \in Calls : sess'[i].status = "none" => sess[i].status = "none"
  BY <1>4
<1> QED
  BY <1>1, <1>2, <1>4, <1>5, <1>6, <1>7 DEF StoreConfirmIs

\* The commit of a reply adds it to one session and no other.
LEMMA StoreReplyMeans ==
    ASSUME TypeOK, Shape, Turns, Copies, NEW r \in Calls, StoreReplyIs(r)
    PROVE  /\ Out = {r} /\ Out' = {} /\ reply'[r].pc = "ok" /\ r # None
           /\ \E i \in Calls :
                 /\ i = reply[r].sid /\ newest' = i
                 /\ Latest(i)' = r /\ Has(i)' = Has(i) \cup {r} /\ Last(sess'[i].msgs).by = "agent"
                 /\ \A k \in Calls : /\ r \notin Has(k)
                                     /\ k # i => sess'[k] = sess[k] /\ Latest(k)' = Latest(k) /\ Has(k)' = Has(k)
                 /\ i # newest => Latest(newest) = None /\ call[r].kind # "answer"
           /\ Active' \subseteq Active
<1>1. PICK i \in Calls : i = reply[r].sid
  BY DEF StoreReplyIs
<1>2. reply[r].pc = "store" /\ ReplyCopy(r) /\ r # None
  BY OnboardingAssumption DEF StoreReplyIs, Copies
<1>3. reply'[r].pc = "ok" /\ \A q \in Calls : q # r => reply'[q] = reply[q]
  BY DEF StoreReplyIs, ReplyIs
<1>4. Out = {r} /\ Out' = {}
  <2>1. r \in Out
    BY <1>2 DEF Out
  <2>2. Out = {r}
    BY <2>1 DEF Turns
  <2> QED
    BY <1>3, <2>2, OutIs
<1>5. PICK st, ms, dr : /\ SessIs(i, st, ms, dr) /\ st \in {sess[i].status, "completed"}
                        /\ ms = Append(reply[r].msgs, By("agent", r))
  BY <1>1 DEF StoreReplyIs
<1>6. newest' = i /\ sess'[i].status = st /\ sess'[i].msgs = ms /\ \A k \in Calls : k # i => sess'[k] = sess[k]
  BY <1>5 DEF SessIs
<1>7. reply[r].msgs \in Seq(Entry)
  BY Types
<1>8. Last(ms) = By("agent", r) /\ LastAgent(ms) = r /\ Replies(ms) = Replies(reply[r].msgs) \cup {r}
  BY <1>5, <1>7, AgentAppends
<1>9. Last(sess'[i].msgs).by = "agent"
  BY <1>6, <1>8 DEF By
<1>10. \A k \in Calls : r \notin Has(k)
  BY <1>2 DEF Shape, Stored, Has
<1>11. Active' \subseteq Active
  BY <1>5, <1>6 DEF Active
<1>12. Latest(i)' = r /\ Has(i)' = Has(i) \cup {r}
  BY <1>1, <1>2, <1>6, <1>8 DEF Latest, Has, ReplyCopy
<1>13. \A k \in Calls : k # i => Latest(k)' = Latest(k) /\ Has(k)' = Has(k)
  BY <1>6 DEF Latest, Has
<1>14. i # newest => Latest(newest) = None /\ call[r].kind # "answer"
  BY <1>1, <1>2 DEF ReplyCopy
<1> QED
  BY <1>1, <1>2, <1>3, <1>4, <1>6, <1>9, <1>10, <1>11, <1>12, <1>13, <1>14

\* The last message of a list that has one.
LEMMA LastIs ==
    ASSUME NEW m \in Seq(Entry), m # <<>>
    PROVE  Last(m) \in Entry /\ (Last(m).by = "agent" => LastAgent(m) # None)
<1>1. PICK n \in Nat : n = Len(m) /\ DOMAIN m = 1..n
  BY LenProperties
<1>2. n # 0
  BY <1>1, EmptySeq
<1>3. n \in DOMAIN m /\ m[n] \in Entry /\ Last(m) = m[n]
  BY <1>1, <1>2, ElementOfSeq DEF Last
<1>4. m[n].of \in Calls /\ (m[n].by = "agent" => m[n] = By("agent", m[n].of))
  BY <1>3 DEF Entry, By
<1>5. m[n].by = "agent" => Replies(m) # {}
  BY <1>3, <1>4 DEF Replies
<1> QED
  BY <1>3, <1>5, LastAgentIs

\* The last message of the agent in a session is one of the session.
LEMMA LatestIs ==
    ASSUME TypeOK, NEW i \in Calls
    PROVE  /\ Latest(i) \in Has(i) \cup {None} /\ (Latest(i) = None <=> Has(i) = {})
           /\ Latest(i) \in Calls \cup {None} /\ Has(i) \subseteq Calls
BY Types, LastAgentIs DEF Latest, Has, Replies

\* A page that may ask shows what is newest, and the agent has nothing to do.
LEMMA AskingIs ==
    ASSUME TypeOK, Shape, Turns, Views, page.open, ~Loading, ~IsAwaiting, Asked \/ Drafted
    PROVE  Out = {} /\ UpTo(page.view) /\ ~Waits(page.view, page.awaiting) /\ Settled(page.view, page.n, page.awaiting)
<1>1. \A r \in Calls : page.cur # r
  BY OnboardingAssumption DEF Loading
<1>2. Settled(page.view, page.n, page.awaiting)
  BY <1>1 DEF Views
<1>3. ~Waits(page.view, page.awaiting)
  BY DEF Waits, IsAwaiting, Asked, Drafted, Seen
<1> QED
  BY <1>2, <1>3 DEF Settled, Sound

\* An answer is about the last message of the newest session.
LEMMA AnswerMeans ==
    ASSUME TypeOK, Shape, Turns, Threads, Views, NEW r \in Calls, AnswerIs(r)
    PROVE  /\ page.cur = None /\ Out = {} /\ UpTo(page.view) /\ reply[r].pc = "none"
           /\ ~Waits(page.view, page.awaiting) /\ Settled(page.view, page.n, page.awaiting)
           /\ Seen = Latest(newest) /\ Seen # None /\ Seen \in Calls /\ newest \in Calls
           /\ \A q \in Calls : ~Running(q)
           /\ Last(call'[r].msgs) = By("user", r) /\ LastAgent(call'[r].msgs) = Seen /\ Replies(call'[r].msgs) = Has(newest)
<1>1. /\ page.open /\ page.cur = None /\ ~Loading /\ ~IsAwaiting /\ (Asked \/ Drafted) /\ newest \in Calls /\ reply[r].pc = "none"
      /\ call'[r].msgs = Append(sess[newest].msgs, By("user", r))
  BY DEF AnswerIs, Loading, CallIs, Shape, CallShape, CallFits
<1>2. Out = {} /\ UpTo(page.view) /\ ~Waits(page.view, page.awaiting) /\ Settled(page.view, page.n, page.awaiting)
  BY <1>1, AskingIs
<1>3. Seen = Latest(newest)
  BY <1>2 DEF UpTo, Seen
<1>4. Seen # None
  BY <1>1, <1>2, <1>3 DEF UpTo, Asked, Drafted, Threads
<1>5. Seen \in Calls
  BY <1>1, <1>3, <1>4, LatestIs
<1>6. \A q \in Calls : ~Running(q)
  BY <1>1, OnboardingAssumption DEF Turns
<1>7. sess[newest].msgs \in Seq(Entry)
  BY <1>1, Types
<1>8. Last(call'[r].msgs) = By("user", r) /\ LastAgent(call'[r].msgs) = Latest(newest) /\ Replies(call'[r].msgs) = Has(newest)
  BY <1>1, <1>7, UserAppends DEF Latest, Has
<1> QED
  BY <1>1, <1>2, <1>3, <1>4, <1>5, <1>6, <1>8

\* A confirmation is of what the newest session holds.
LEMMA ConfirmMeans ==
    ASSUME TypeOK, Shape, Turns, Views, NEW r \in Calls, ConfirmIs(r)
    PROVE  /\ page.cur = None /\ Out = {} /\ UpTo(page.view) /\ reply[r].pc = "none"
           /\ Settled(page.view, page.n, page.awaiting) /\ newest \in Calls
           /\ \A q \in Calls : ~Running(q)
<1>1. /\ page.open /\ page.cur = None /\ ~Loading /\ ~IsAwaiting /\ (Asked \/ Drafted) /\ newest \in Calls /\ reply[r].pc = "none"
  BY DEF ConfirmIs, Loading, Shape, CallShape, CallFits
<1>2. Out = {} /\ UpTo(page.view) /\ Settled(page.view, page.n, page.awaiting)
  BY <1>1, AskingIs
<1>3. \A q \in Calls : ~Running(q)
  BY <1>1, OnboardingAssumption DEF Turns
<1> QED
  BY <1>1, <1>2, <1>3

\* A dialog that opens finds the agent idle.
LEMMA OpenMeans ==
    ASSUME TypeOK, Shape, Turns, Threads, NEW r \in Calls, OpenIs(r)
    PROVE  /\ Out = {} /\ gets = {} /\ reply[r].pc = "none" /\ \A q \in Calls : ~Running(q)
           /\ call'[r].kind = "start" /\ call'[r].pc \in {"send", "answered"}
           /\ call'[r].pc = "send" => IF call'[r].sid = None THEN Active = {}
                                      ELSE Active \subseteq {call'[r].sid} /\ Latest(call'[r].sid) = None
           /\ call'[r].pc = "answered" => UpTo(call'[r].got.s)
<1>1. Out = {} /\ gets = {} /\ reply[r].pc = "none" /\ \A q \in Calls : ~Running(q)
  BY DEF OpenIs, Turns, Shape, CallShape, CallFits
<1>2. CASE Active = {} /\ CallIs(r, "start", "send", None, <<>>, None, NoReading)
  BY <1>1, <1>2 DEF CallIs
<1>3. ASSUME NEW i \in Active
      PROVE  i \in Calls /\ sess[i].status = "active" /\ Active = {i} /\ i # None /\ Last(sess[i].msgs) \in Entry
             /\ (Last(sess[i].msgs).by = "agent" => Latest(i) # None)
  <2>1. i \in Calls /\ sess[i].status = "active" /\ sess[i].msgs \in Seq(Entry)
    BY Types DEF Active
  <2>2. sess[i].msgs # <<>>
    BY <2>1 DEF Shape, SessShape
  <2> QED
    BY <2>1, <2>2, LastIs, OnboardingAssumption DEF Threads, Latest
<1>4. ASSUME NEW i \in Active, Last(sess[i].msgs).by = "user"
      PROVE  Latest(i) = None
  <2>1. PICK a : a = Last(sess[i].msgs).of
    OBVIOUS
  <2>2. a \in Calls
    BY <1>3, <2>1 DEF Entry
  <2>3. reply[a].pc # "refused"
    BY <2>2 DEF OpenIs, Shape, ReplyShape, ReplyFits
  <2> QED
    BY <1>1, <1>3, <1>4, <2>1, <2>3 DEF Threads, AskedIn
<1>5. ASSUME NEW i \in Active, Last(sess[i].msgs).by = "user", CallIs(r, "start", "send", i, <<>>, None, NoReading)
      PROVE  call'[r].kind = "start" /\ call'[r].pc = "send" /\ call'[r].sid = i /\ i # None /\ Active = {i} /\ Latest(i) = None
  BY <1>3, <1>4, <1>5 DEF CallIs
<1>6. ASSUME NEW i \in Active, Last(sess[i].msgs).by # "user", CallIs(r, "start", "answered", i, <<>>, None, Reads(i))
      PROVE  call'[r].kind = "start" /\ call'[r].pc = "answered" /\ UpTo(call'[r].got.s)
  <2>1. Last(sess[i].msgs).by = "agent"
    BY <1>3, <1>6 DEF Entry
  <2>2. newest = i
    BY <1>3, <2>1 DEF Threads
  <2>3. call'[r].got.s = sess[newest]
    BY <1>6, <2>2 DEF CallIs, Reads
  <2> QED
    BY <1>6, <2>3 DEF CallIs, UpTo, Latest
<1> QED
  BY <1>1, <1>2, <1>5, <1>6 DEF OpenIs

\* A message that is refused was the only one.
LEMMA LoadRefusedMeans ==
    ASSUME TypeOK, Shape, Turns, NEW r \in Calls, LoadRefusedIs(r)
    PROVE  Out = {r} /\ Out' = {} /\ reply'[r].pc = "refused" /\ page.open
<1>1. r \in Out /\ reply'[r].pc = "refused" /\ \A q \in Calls : q # r => reply'[q] = reply[q]
  BY DEF LoadRefusedIs, ReplyIs, Out
<1>2. Out = {r}
  BY <1>1 DEF Turns
<1> QED
  BY <1>1, <1>2, OutIs DEF Turns

\* A message that is read was the only one.
LEMMA LoadMeans ==
    ASSUME TypeOK, Shape, Turns, NEW r \in Calls, LoadIs(r)
    PROVE  Out = {r} /\ Out' = {r} /\ page.open /\ reply'[r].pc = "store" /\ reply'[r].sid = newest /\ reply'[r].msgs = sess[newest].msgs
<1>1. r \in Out /\ reply'[r].pc = "store" /\ (\A q \in Calls : q # r => reply'[q] = reply[q])
      /\ reply'[r].sid = newest /\ reply'[r].msgs = sess[newest].msgs
  BY DEF LoadIs, ReplyIs, Out
<1>2. Out = {r}
  BY <1>1 DEF Turns
<1> QED
  BY <1>1, <1>2, OutIs DEF Turns

\* Unless the dialog goes rough, what fails had not been sent.
LEMMA FailMeans ==
    ASSUME TypeOK, Shape, Turns, NEW r \in Calls, FailIs(r), ~Broken'
    PROVE  reply' = reply /\ reply[r].pc = "none" /\ Running(r) /\ page.cur = r /\ Out = {}
<1>1. reply'[r].pc = "none"
  BY DEF FailIs, Broken
<1>2. reply' = reply
  BY <1>1 DEF FailIs, Hears, ReplyIs
<1>3. Running(r)
  BY DEF FailIs, Running
<1> QED
  BY <1>1, <1>2, <1>3, RunningIs DEF Told

\* Unless the dialog goes rough, nothing is under way when it closes.
LEMMA CloseMeans ==
    ASSUME CloseIs, ~Broken'
    PROVE  page.cur = None /\ Out = {}
BY DEF CloseIs, Broken, Loading

\* Unless the dialog goes rough, what is shown is not older.
LEMMA GetMeans ==
    ASSUME TypeOK, Shape, NEW got \in gets, GetIs(got), ~Broken'
    PROVE  page.n <= got.n
<1>1. ~Older(got)
  BY DEF GetIs, Broken
<1>2. got.n \in Nat /\ page.n \in Nat
  BY Types DEF TypeOK, Reading
<1> QED
  BY <1>1, <1>2 DEF Older, Shape, PageShape
-----------------------------------------------------------------------------
(* The turns *)

LEMMA TurnsStep ==
    ASSUME TypeOK, Shape, Sane, TypeOK', Shape', ~Broken', NEW r \in Calls, StepOf(r)
    PROVE  Turns'
<1>0. /\ Grows /\ Turns /\ Threads /\ Copies /\ Views /\ Agreed /\ r # None
      /\ \A q \in Calls : q # r => call'[q] = call[q] /\ reply'[q] = reply[q]
  BY GrowsStep, OnboardingAssumption DEF Sane
<1>1. \A q \in Calls : q # r => Running(q)' = Running(q) /\ Told(q)' = Told(q)
  BY <1>0 DEF Running, Told
<1>2. ASSUME page' = page, gets' = gets, Out' \subseteq Out, Running(r)' => Running(r), call'[r].pc = "failed" => reply'[r].pc = "none"
      PROVE  Turns'
  BY <1>0, <1>1, <1>2 DEF Turns, Grows, Told
<1>3. ASSUME reply' = reply PROVE Out' = Out
  BY <1>3 DEF Out
<1>4. CASE SendIs(r)
  <2>1. /\ page.cur = r /\ page.open /\ page' = page /\ Out' = {r} /\ Out = {} /\ Told(r)' /\ Running(r)
        /\ call'[r].pc = "store"
    BY <1>0, <1>4, SendMeans, RunningIs DEF SendIs, Told, Goes, CallIs
  <2> QED
    BY <1>0, <1>1, <2>1 DEF Turns
<1>5. CASE StoreAnswerIs(r) \/ StoreTouchIs(r) \/ StoreNewIs(r) \/ RefreshIs(r)
  <2>1. page' = page /\ gets' = gets /\ reply' = reply /\ Running(r) /\ call'[r].pc \in {"refresh", "answered"}
    BY <1>5 DEF StoreAnswerIs, StoreTouchIs, StoreNewIs, RefreshIs, Running, CallIs
  <2> QED
    BY <1>2, <1>3, <2>1
<1>6. CASE StoreConfirmIs(r)
  <2>1. page' = page /\ gets' = gets /\ reply' = reply /\ Running(r) /\ call'[r].pc = "answered"
    BY <1>6 DEF StoreConfirmIs, Running, Goes, CallIs
  <2> QED
    BY <1>2, <1>3, <2>1
<1>7. CASE FailIs(r)
  <2>1. page' = page /\ gets' = gets /\ reply' = reply /\ Running(r) /\ reply[r].pc = "none"
    BY <1>0, <1>7, FailMeans DEF FailIs
  <2> QED
    BY <1>2, <1>3, <2>1
<1>8. CASE LoadRefusedIs(r) \/ LoadIs(r) \/ StoreReplyIs(r)
  <2>1. page' = page /\ gets' = gets /\ call' = call /\ r \in Out /\ Out' \subseteq Out
    BY <1>0, <1>8, LoadRefusedMeans, LoadMeans, StoreReplyMeans DEF LoadRefusedIs, LoadIs, StoreReplyIs
  <2>2. Told(r)
    BY <2>1 DEF Out, Told
  <2>3. call'[r].pc # "failed" /\ (Running(r)' => Running(r))
    BY <1>0, <2>1, <2>2 DEF Turns, Running
  <2> QED
    BY <1>2, <2>1, <2>3
<1>9. CASE OpenIs(r) \/ AnswerIs(r) \/ ConfirmIs(r)
  <2>1. Out = {} /\ (\A q \in Calls : ~Running(q)) /\ reply' = reply /\ page'.open /\ page'.cur = r
    BY <1>0, <1>9, OpenMeans, AnswerMeans, ConfirmMeans DEF OpenIs, AnswerIs, ConfirmIs, PageIs
  <2>2. call'[r].pc # "failed"
    BY <1>9 DEF OpenIs, AnswerIs, ConfirmIs, CallIs
  <2>3. Out' = {}
    BY <1>3, <2>1
  <2> QED
    BY <1>0, <1>1, <2>1, <2>2, <2>3 DEF Turns
<1>10. CASE ArriveShownIs(r) \/ ArriveClosesIs(r) \/ ArriveFailedIs(r)
  <2>1. page.cur = r /\ reply' = reply /\ gets' = gets /\ board' = board /\ page'.cur = None
    BY <1>10 DEF ArriveShownIs, ArriveClosesIs, ArriveFailedIs, ShownIs, PageIs, Closed
  <2>2. \A q \in Calls : ~Running(q)'
    <3>1. \A q \in Calls : q # r => ~Running(q)
      BY <1>0, <2>1 DEF Turns
    <3>2. ~Running(r)'
      BY <1>10 DEF ArriveShownIs, ArriveClosesIs, ArriveFailedIs, Ended, CallIs, Running
    <3> QED
      BY <1>1, <3>1, <3>2
  <2>3. Out' = Out
    BY <1>3, <2>1
  <2>4. call'[r].pc = "failed" => reply'[r].pc = "none"
    BY <1>0, <1>10, <2>1 DEF ArriveShownIs, ArriveClosesIs, ArriveFailedIs, Ended, CallIs, Turns, Told
  <2>5. page'.open \/ (Out = {} /\ board.goal # None)
    <3>1. page.open
      BY <1>0, <2>1 DEF Shape, PageShape, Closed
    <3>2. CASE ArriveClosesIs(r)
      BY <1>0, <3>2 DEF ArriveClosesIs, Shape, CallShape, CallFits, Turns, Told
    <3> QED
      BY <1>10, <3>1, <3>2 DEF ArriveShownIs, ArriveFailedIs, ShownIs, PageIs
  <2> QED
    BY <1>0, <1>1, <2>1, <2>2, <2>3, <2>4, <2>5, OnboardingAssumption DEF Turns, Told
<1> QED
  BY <1>4, <1>5, <1>6, <1>7, <1>8, <1>9, <1>10 DEF StepOf

-----------------------------------------------------------------------------
(* The sessions *)

LEMMA ThreadsStep ==
    ASSUME TypeOK, Shape, Sane, TypeOK', Shape', ~Broken', NEW r \in Calls, StepOf(r)
    PROVE  Threads'
<1>0. /\ Grows /\ Turns /\ Threads /\ Copies /\ Views /\ Agreed /\ r # None
      /\ \A q \in Calls : q # r => call'[q] = call[q] /\ reply'[q] = reply[q]
      /\ \A i \in Calls : AskedIn(i)
      /\ \A i \in Calls : Latest(i) \in Has(i) \cup {None}
  BY GrowsStep, OnboardingAssumption, LatestIs DEF Sane, Threads
<1>1. \A i \in Calls : sess[i].status # "none" => Last(sess[i].msgs) \in Entry
  BY Types, LastIs DEF Shape, SessShape
<1>2. \A i \in Calls : sess[i].status # "none" => Last(sess[i].msgs).of \in Calls
  BY <1>1 DEF Entry
<1>3. Running(r) /\ Told(r) => Out \subseteq {r}
  BY <1>0 DEF Turns
\* A message of the user that waits for its reply still does.
<1>4. ASSUME NEW i \in Calls, sess'[i].msgs = sess[i].msgs, sess'[i].status = "none" => sess[i].status = "none",
             sess'[i].status # "none" => sess[i].status # "none",
             newest' = newest \/ Latest(newest) = None \/ ~(Out # {}),
             \A a \in Out : call[a].kind = "answer" => newest' = newest /\ (a \in Out' \/ reply'[a].pc = "refused"),
             \A a \in Calls : Told(a) => call'[a].kind = call[a].kind
      PROVE  AskedIn(i)'
  <2>1. Latest(i)' = Latest(i)
    BY <1>4 DEF Latest
  <2>2. CASE sess[i].status # "none" /\ Last(sess[i].msgs).by = "user"
    <3>1. PICK a : a = Last(sess[i].msgs).of
      OBVIOUS
    <3>2. a \in Calls /\ Last(sess'[i].msgs).of = a
      BY <1>2, <1>4, <2>2, <3>1
    <3>3. Latest(i) = None \/ (call[a].kind = "answer" /\ (reply[a].pc = "refused" \/ (a \in Out /\ i = newest)))
      BY <1>0, <2>2, <3>1 DEF AskedIn
    <3>4. ASSUME call[a].kind = "answer", reply[a].pc = "refused"
          PROVE  call'[a].kind = "answer" /\ reply'[a].pc = "refused"
      BY <1>0, <1>4, <3>2, <3>4 DEF Grows, Told
    <3>5. ASSUME call[a].kind = "answer", a \in Out, i = newest
          PROVE  call'[a].kind = "answer" /\ (reply'[a].pc = "refused" \/ (a \in Out' /\ i = newest'))
      BY <1>4, <3>2, <3>5 DEF Out, Told
    <3> QED
      BY <2>1, <3>2, <3>3, <3>4, <3>5 DEF AskedIn
  <2>3. CASE ~(sess[i].status # "none" /\ Last(sess[i].msgs).by = "user")
    BY <1>4, <2>3 DEF AskedIn
  <2> QED
    BY <2>2, <2>3
<1>5. \A a \in Calls : Told(a) => call'[a].kind = call[a].kind
  <2>1. Told(r) => call[r].pc # "new"
    BY DEF Told, Shape, CallShape, CallFits
  <2>2. call[r].pc = "new" \/ call'[r].kind = call[r].kind
    BY DEF StepOf, SendIs, StoreAnswerIs, StoreTouchIs, StoreNewIs, RefreshIs, StoreConfirmIs, FailIs, LoadRefusedIs, LoadIs,
       StoreReplyIs, OpenIs, AnswerIs, ConfirmIs, ArriveShownIs, ArriveClosesIs, ArriveFailedIs, CallIs, Goes, Ended
  <2> QED
    BY <1>0, <2>1, <2>2
\* The rest of Threads.
<1>6. ASSUME Steady, Active' \subseteq Active, newest' = newest, \A i \in Calls : AskedIn(i)'
      PROVE  Threads'
  <2>1. \A i \in Active : i \in Calls
    BY DEF Active
  <2> QED
    BY <1>0, <1>6, <2>1 DEF Threads, Steady
<1>7. CASE sess' = sess /\ newest' = newest
  <2>1. Steady /\ Active' = Active
    BY <1>7 DEF Steady, Latest, Has, Active
  <2>2. \A a \in Out : a \in Out' \/ reply'[a].pc = "refused"
    <3>1. \A a \in Out : a # r => a \in Out'
      BY <1>0 DEF Out
    <3>2. r \in Out => r \in Out' \/ reply'[r].pc = "refused"
      <4>1. ~StoreReplyIs(r)
        BY <1>0, <1>7, StoreReplyMeans DEF Has
      <4>2. r \in Out => ~SendIs(r) /\ ~FailIs(r)
        BY <1>0, SendMeans, FailMeans DEF Out
      <4>3. reply' = reply \/ LoadRefusedIs(r) \/ LoadIs(r) \/ SendIs(r) \/ FailIs(r)
        BY <4>1 DEF StepOf, StoreAnswerIs, StoreTouchIs, StoreNewIs, RefreshIs, StoreConfirmIs,
           OpenIs, AnswerIs, ConfirmIs, ArriveShownIs, ArriveClosesIs, ArriveFailedIs
      <4>4. reply' = reply => Out' = Out
        BY DEF Out
      <4> QED
        BY <1>0, <4>2, <4>3, <4>4, LoadRefusedMeans, LoadMeans
    <3> QED
      BY <3>1, <3>2
  <2>3. \A i \in Calls : AskedIn(i)'
    BY <1>4, <1>5, <1>7, <2>2
  <2> QED
    BY <1>6, <1>7, <2>1, <2>3
<1>8. CASE StoreAnswerIs(r)
  <2>1. /\ Running(r) /\ reply[r].pc # "none" /\ reply[r].pc # "ok"
        /\ newest' = newest /\ newest \in Calls
        /\ Steady /\ \A i \in Calls : sess'[i].status = sess[i].status /\ (i # newest => sess'[i] = sess[i])
        /\ Last(sess'[newest].msgs) = By("user", r)
    BY <1>0, <1>8, StoreAnswerMeans
  <2>2. Active' = Active
    BY <2>1 DEF Active
  <2>3. reply' = reply /\ call'[r].kind = "answer"
    BY <1>8 DEF StoreAnswerIs, CallIs
  <2>4. Out' = Out
    BY <2>3 DEF Out
  <2>5. \A i \in Calls : i # newest => AskedIn(i)'
    BY <1>4, <1>5, <2>1, <2>4
  <2>6. reply[r].pc = "refused" \/ r \in Out
    BY <2>1, Types DEF Out, ReplyState
  <2>7. AskedIn(newest)'
    <3>1. Last(sess'[newest'].msgs).of = r
      BY <2>1 DEF By
    <3> QED
      BY <2>1, <2>3, <2>4, <2>6, <3>1 DEF AskedIn
  <2>8. \A i \in Calls : AskedIn(i)'
    BY <2>1, <2>5, <2>7
  <2> QED
    BY <1>6, <2>1, <2>2, <2>8
<1>9. CASE StoreTouchIs(r)
  <2>1. /\ Running(r) /\ reply[r].pc # "none"
        /\ newest' \in Calls /\ Active \subseteq {newest'} /\ Steady
    BY <1>0, <1>9, StoreTouchMeans
  <2>2. sess' = sess /\ reply' = reply /\ call[r].kind = "start"
    BY <1>9 DEF StoreTouchIs
  <2>3. Out' = Out /\ \A a \in Out : call[a].kind # "answer"
    BY <1>3, <2>1, <2>2 DEF Out, Told
  <2>4. Active' = Active
    BY <2>2 DEF Active
  <2>5. ASSUME NEW i \in Calls PROVE AskedIn(i)'
    BY <1>0, <1>2, <1>5, <2>2, <2>3 DEF AskedIn, Latest, Grows, Told
  <2> QED
    BY <1>0, <2>1, <2>2, <2>4, <2>5 DEF Threads, Steady
<1>10. CASE StoreNewIs(r)
  <2>1. /\ Running(r) /\ reply[r].pc # "none"
        /\ newest' = r /\ Active' = {r}
        /\ Latest(r) = None /\ \A i \in Calls : i # r => sess'[i] = sess[i]
        /\ Steady
    BY <1>0, <1>10, StoreNewMeans
  <2>2. reply' = reply /\ call[r].kind = "start"
    BY <1>10 DEF StoreNewIs
  <2>3. Out' = Out /\ \A a \in Out : call[a].kind # "answer"
    BY <1>3, <2>1, <2>2 DEF Out, Told
  <2>4. ASSUME NEW i \in Calls, i # r PROVE AskedIn(i)'
    <3>1. sess'[i] = sess[i] /\ Latest(i)' = Latest(i)
      BY <2>1, <2>4 DEF Steady
    <3> QED
      BY <1>0, <1>2, <1>5, <2>2, <2>3, <3>1 DEF AskedIn, Grows, Told
  <2>5. AskedIn(r)'
    BY <2>1 DEF AskedIn, Steady
  <2> QED
    BY <1>0, <2>1, <2>4, <2>5 DEF Threads, Steady
<1>11. CASE StoreConfirmIs(r)
  <2>1. /\ Out = {} /\ newest' = newest /\ Active' \subseteq Active
        /\ \A i \in Calls : sess'[i].msgs = sess[i].msgs /\ (sess'[i].status = "none" => sess[i].status = "none")
        /\ Steady
    BY <1>0, <1>11, StoreConfirmMeans
  <2>2. \A i \in Calls : sess'[i].status # "none" => sess[i].status # "none"
    <3>1. call'[r].pc = "answered"
      BY <1>11 DEF StoreConfirmIs, Goes, CallIs
    <3> QED
      BY <3>1, GrowsStep
  <2>3. \A i \in Calls : AskedIn(i)'
    BY <1>4, <1>5, <2>1, <2>2
  <2> QED
    BY <1>6, <2>1, <2>3
<1>12. CASE StoreReplyIs(r)
  <2>1. Out = {r} /\ Out' = {} /\ Active' \subseteq Active
    BY <1>0, <1>12, StoreReplyMeans
  <2>2. PICK i \in Calls :
              /\ newest' = i
              /\ Latest(i)' = r /\ Has(i)' = Has(i) \cup {r} /\ Last(sess'[i].msgs).by = "agent"
              /\ \A k \in Calls : /\ r \notin Has(k)
                                  /\ k # i => sess'[k] = sess[k] /\ Latest(k)' = Latest(k) /\ Has(k)' = Has(k)
              /\ i # newest => Latest(newest) = None /\ call[r].kind # "answer"
    BY <1>0, <1>12, StoreReplyMeans
  <2>3. call' = call
    BY <1>12 DEF StoreReplyIs
  <2>4. AskedIn(i)'
    BY <2>2 DEF AskedIn
  <2>5. ASSUME NEW k \in Calls, k # i PROVE AskedIn(k)'
    <3>1. sess'[k] = sess[k] /\ Latest(k)' = Latest(k)
      BY <2>2, <2>5
    <3> QED
      BY <1>0, <1>2, <2>1, <2>2, <2>3, <2>5, <3>1 DEF AskedIn, Grows
  <2>6. \A j, k \in Calls : j # k => Has(j)' \cap Has(k)' = {}
    BY <1>0, <2>2 DEF Threads
  <2>7. \A k \in Active' : Latest(k)' # None => newest' = k
    BY <1>0, <2>1, <2>2 DEF Threads, Active
  <2>8. \A k \in Calls : Latest(k)' = None => sess'[k].draft = None
    BY <1>0, <2>2 DEF Threads
  <2>9. \A j, k \in Active' : j = k
    BY <1>0, <2>1 DEF Threads
  <2>10. \A k \in Calls : AskedIn(k)'
    BY <2>4, <2>5
  <2> QED
    BY <2>6, <2>7, <2>8, <2>9, <2>10 DEF Threads
<1> QED
  BY <1>7, <1>8, <1>9, <1>10, <1>11, <1>12 DEF StepOf, SendIs, RefreshIs, FailIs, LoadRefusedIs, LoadIs,
     OpenIs, AnswerIs, ConfirmIs, ArriveShownIs, ArriveClosesIs, ArriveFailedIs
-----------------------------------------------------------------------------
(* The copies *)

\* A step for r finds no other request running and no other message with the agent.
LEMMA Alone ==
    ASSUME TypeOK, Shape, Sane, ~Broken', NEW r \in Calls, StepOf(r)
    PROVE  /\ Out \subseteq {r} /\ Out' \subseteq {r}
           /\ \A q \in Calls : q # r => ~Running(q) /\ ~Running(q)'
<1>0. /\ Turns /\ Threads /\ Copies /\ Views /\ Agreed /\ r # None
      /\ \A q \in Calls : q # r => call'[q] = call[q] /\ reply'[q] = reply[q]
  BY GrowsStep, OnboardingAssumption DEF Sane
<1>1. CASE Running(r)
  BY <1>0, <1>1, RunningIs DEF Out, Running
<1>2. CASE page.cur = r
  BY <1>0, <1>2 DEF Turns, Out, Running
<1>3. CASE r \in Out
  <2>1. \A q \in Calls : q # r => ~Running(q)
    BY <1>0, <1>3 DEF Turns
  <2>2. Out \subseteq {r}
    BY <1>0, <1>3 DEF Turns
  <2> QED
    BY <1>0, <2>1, <2>2 DEF Out, Running
<1>4. CASE Out = {} /\ \A q \in Calls : ~Running(q)
  BY <1>0, <1>4 DEF Out, Running
<1>5. CASE OpenIs(r) \/ AnswerIs(r) \/ ConfirmIs(r)
  BY <1>0, <1>4, <1>5, OpenMeans, AnswerMeans, ConfirmMeans
<1> QED
  BY <1>1, <1>2, <1>3, <1>5 DEF StepOf, SendIs, StoreAnswerIs, StoreTouchIs, StoreNewIs, RefreshIs, StoreConfirmIs, FailIs,
     LoadRefusedIs, LoadIs, StoreReplyIs, ArriveShownIs, ArriveClosesIs, ArriveFailedIs, Running, Out

\* A step keeps what is known of the copies.
LEMMA CopiesStep ==
    ASSUME TypeOK, Shape, Sane, TypeOK', Shape', ~Broken', NEW r \in Calls, StepOf(r)
    PROVE  Copies'
<1>0. /\ Grows /\ Turns /\ Threads /\ Copies /\ Views /\ Agreed /\ r # None
      /\ \A q \in Calls : q # r => call'[q] = call[q] /\ reply'[q] = reply[q]
      /\ Out \subseteq {r} /\ Out' \subseteq {r}
      /\ \A q \in Calls : q # r => ~Running(q)'
  BY GrowsStep, Alone, OnboardingAssumption DEF Sane
<1> DEFINE Here == /\ call'[r].kind = "answer" /\ call'[r].pc \in {"send", "store"} => AnswerCopy(r)'
                   /\ reply'[r].pc = "store" => ReplyCopy(r)'
                   /\ call'[r].kind = "start" /\ call'[r].pc \in {"send", "store"} => StartCopy(r)'
                   /\ r \in Out' /\ call'[r].kind = "answer" => Latest(newest)' = call'[r].about
<1>1. Here => Copies'
  BY <1>0 DEF Copies, Running, Out
<1>2. CASE SendIs(r)
  <2>1. /\ reply[r].pc = "none" /\ reply'[r].pc = "told" /\ sess' = sess /\ newest' = newest
        /\ call[r].pc = "send" /\ call'[r].pc = "store" /\ call'[r].kind = call[r].kind /\ call'[r].sid = call[r].sid
        /\ call'[r].msgs = call[r].msgs /\ call'[r].about = call[r].about
    BY <1>0, <1>2, SendMeans DEF SendIs, Goes, CallIs
  <2>2. call[r].kind = "answer" => AnswerCopy(r)
    BY <1>0, <2>1 DEF Copies
  <2>3. call[r].kind = "answer" => AnswerCopy(r)' /\ Latest(newest)' = call'[r].about
    BY <2>1, <2>2 DEF AnswerCopy, Latest, Has
  <2>4. call[r].kind = "start" => StartCopy(r)'
    BY <1>0, <2>1 DEF Copies, StartCopy, Latest, Active
  <2> QED
    BY <1>1, <2>1, <2>3, <2>4
<1>3. CASE StoreAnswerIs(r)
  <2>1. /\ reply' = reply /\ newest' = newest /\ newest \in Calls /\ Steady /\ Latest(newest) = call[r].about
        /\ call'[r].pc = "refresh" /\ call'[r].kind = "answer" /\ call'[r].about = call[r].about /\ call[r].kind = "answer"
    BY <1>0, <1>3, StoreAnswerMeans DEF StoreAnswerIs, CallIs
  <2>2. reply[r].pc = "store" => ReplyCopy(r)'
    BY <1>0, <2>1, Types DEF Copies, ReplyCopy, Steady, Shape, ReplyShape, ReplyFits
  <2> QED
    BY <1>1, <2>1, <2>2 DEF Steady
<1>4. CASE StoreTouchIs(r)
  <2>1. /\ reply' = reply /\ newest' \in Calls /\ Steady /\ (Latest(newest') = None \/ reply[r].pc = "ok")
        /\ call'[r].pc = "refresh" /\ call'[r].kind = "start" /\ sess' = sess
    BY <1>0, <1>4, StoreTouchMeans DEF StoreTouchIs, CallIs
  <2>2. reply[r].pc = "store" => ReplyCopy(r)'
    BY <1>0, <2>1, Types DEF Copies, ReplyCopy, Latest, Has, Shape, ReplyShape, ReplyFits
  <2> QED
    BY <1>1, <2>1, <2>2
<1>5. CASE StoreNewIs(r)
  <2>1. /\ reply' = reply /\ newest' = r /\ Steady /\ Latest(r) = None
        /\ call'[r].pc = "refresh" /\ call'[r].kind = "start"
    BY <1>0, <1>5, StoreNewMeans DEF StoreNewIs, CallIs
  <2>2. reply[r].pc = "store" => ReplyCopy(r)'
    BY <1>0, <2>1, Types DEF Copies, ReplyCopy, Steady, Shape, ReplyShape, ReplyFits
  <2> QED
    BY <1>1, <2>1, <2>2
<1>6. CASE StoreReplyIs(r)
  <2>1. Out' = {} /\ Active' \subseteq Active /\ reply'[r].pc = "ok" /\ call' = call /\ r \in Out
    BY <1>0, <1>6, StoreReplyMeans DEF StoreReplyIs
  <2>2. PICK i \in Calls :
              /\ newest' = i /\ Latest(i)' = r /\ Has(i)' = Has(i) \cup {r} /\ r \notin Has(i)
              /\ i # newest => call[r].kind # "answer"
    BY <1>0, <1>6, StoreReplyMeans
  <2>3. CASE call[r].kind = "answer" /\ call[r].pc \in {"send", "store"}
    <3>1. AnswerCopy(r) /\ newest' = newest /\ i = newest
      BY <1>0, <2>2, <2>3 DEF Copies
    <3>2. call[r].sid = i
      BY <3>1 DEF AnswerCopy
    <3>3. Replies(call[r].msgs) = Has(i) \ {r} /\ Last(call[r].msgs) = By("user", r) /\ LastAgent(call[r].msgs) = call[r].about
      BY <3>1, <3>2 DEF AnswerCopy
    <3>4. AnswerCopy(r)'
      BY <2>1, <2>2, <3>2, <3>3 DEF AnswerCopy
    <3> QED
      BY <1>1, <2>1, <2>3, <3>4
  <2>4. CASE call[r].kind = "start" /\ call[r].pc \in {"send", "store"}
    <3>1. StartCopy(r)'
      BY <1>0, <2>1, <2>4 DEF Copies, StartCopy
    <3> QED
      BY <1>1, <2>1, <2>4, <3>1
  <2>5. CASE ~(call[r].kind \in {"answer", "start"} /\ call[r].pc \in {"send", "store"})
    BY <1>1, <2>1, <2>5
  <2> QED
    BY <2>3, <2>4, <2>5
<1>7. CASE OpenIs(r)
  <2>1. /\ Out = {} /\ reply' = reply /\ sess' = sess /\ reply[r].pc = "none"
        /\ call'[r].kind = "start" /\ call'[r].pc \in {"send", "answered"}
        /\ call'[r].pc = "send" => IF call'[r].sid = None THEN Active = {}
                                      ELSE Active \subseteq {call'[r].sid} /\ Latest(call'[r].sid) = None
    BY <1>0, <1>7, OpenMeans DEF OpenIs
  <2>2. call'[r].pc = "send" => StartCopy(r)'
    BY <2>1 DEF StartCopy, Active, Latest
  <2> QED
    BY <1>1, <2>1, <2>2
<1>8. CASE AnswerIs(r)
  <2>1. /\ reply' = reply /\ sess' = sess /\ newest' = newest /\ reply[r].pc = "none"
        /\ call'[r].kind = "answer" /\ call'[r].sid = newest /\ call'[r].about = Seen
        /\ Seen = Latest(newest) /\ newest \in Calls
        /\ Last(call'[r].msgs) = By("user", r) /\ LastAgent(call'[r].msgs) = Seen /\ Replies(call'[r].msgs) = Has(newest)
    BY <1>0, <1>8, AnswerMeans DEF AnswerIs, CallIs
  <2>2. r \notin Has(newest) /\ Has(newest)' = Has(newest) /\ Latest(newest)' = Latest(newest)
    BY <2>1 DEF Shape, Stored, Has, Latest
  <2>3. AnswerCopy(r)'
    BY <2>1, <2>2 DEF AnswerCopy, Has, Latest
  <2>4. r \notin Out'
    BY <2>1 DEF Out
  <2> QED
    BY <1>1, <2>1, <2>3, <2>4
<1>9. CASE LoadIs(r)
  <2>1. /\ sess' = sess /\ newest' = newest /\ call' = call /\ reply[r].pc = "told" /\ newest \in Calls
        /\ reply'[r].pc = "store" /\ reply'[r].sid = newest /\ reply'[r].msgs = sess[newest].msgs /\ r \in Out
    BY <1>0, <1>9, LoadMeans DEF LoadIs
  <2>2. ReplyCopy(r)'
    BY <2>1 DEF ReplyCopy, Has
  <2>3. call[r].kind = "answer" /\ call[r].pc \in {"send", "store"} => AnswerCopy(r)'
    BY <1>0, <2>1 DEF Copies, AnswerCopy, Has, Latest
  <2>4. call[r].kind = "start" /\ call[r].pc \in {"send", "store"} => StartCopy(r)'
    BY <1>0, <2>1 DEF Copies, StartCopy, Active, Latest
  <2>5. call[r].kind = "answer" => Latest(newest)' = call[r].about
    BY <1>0, <2>1 DEF Copies, Latest
  <2> QED
    BY <1>1, <2>1, <2>2, <2>3, <2>4, <2>5
<1>10. CASE LoadRefusedIs(r)
  <2>1. sess' = sess /\ newest' = newest /\ call' = call /\ reply[r].pc = "told" /\ reply'[r].pc = "refused" /\ Out' = {}
    BY <1>0, <1>10, LoadRefusedMeans DEF LoadRefusedIs
  <2>2. call[r].kind = "answer" /\ call[r].pc \in {"send", "store"} => AnswerCopy(r)'
    BY <1>0, <2>1 DEF Copies, AnswerCopy, Has, Latest
  <2>3. call[r].kind = "start" /\ call[r].pc \in {"send", "store"} => StartCopy(r)'
    BY <1>0, <2>1 DEF Copies, StartCopy, Active, Latest
  <2> QED
    BY <1>1, <2>1, <2>2, <2>3
\* Nothing that the copies are about changes.
<1>11. ASSUME sess' = sess, newest' = newest, reply' = reply, call'[r].pc \notin {"send", "store"},
              call'[r].kind = call[r].kind, call'[r].about = call[r].about
       PROVE  Copies'
  <2>1. Out' = Out
    BY <1>11 DEF Out
  <2>2. reply[r].pc = "store" => ReplyCopy(r)'
    BY <1>0, <1>11 DEF Copies, ReplyCopy, Has, Latest
  <2>3. r \in Out /\ call[r].kind = "answer" => Latest(newest)' = call[r].about
    BY <1>0, <1>11 DEF Copies, Latest
  <2> QED
    BY <1>1, <1>11, <2>1, <2>2, <2>3
<1>12. CASE RefreshIs(r) \/ ArriveShownIs(r) \/ ArriveClosesIs(r) \/ ArriveFailedIs(r)
  BY <1>11, <1>12 DEF RefreshIs, ArriveShownIs, ArriveClosesIs, ArriveFailedIs, Ended, CallIs
<1>13. CASE FailIs(r)
  <2>1. reply' = reply
    BY <1>0, <1>13, FailMeans
  <2> QED
    BY <1>11, <1>13, <2>1 DEF FailIs, Ended, CallIs
<1>14. CASE StoreConfirmIs(r) \/ ConfirmIs(r)
  <2>1. reply' = reply /\ reply[r].pc = "none" /\ call'[r].kind = "confirm"
    BY <1>0, <1>14, StoreConfirmMeans, ConfirmMeans DEF StoreConfirmIs, ConfirmIs, Goes, CallIs
  <2> QED
    BY <1>1, <2>1
<1> QED
  BY <1>2, <1>3, <1>4, <1>5, <1>6, <1>7, <1>8, <1>9, <1>10, <1>12, <1>13, <1>14 DEF StepOf
-----------------------------------------------------------------------------
(* What the page is shown *)

\* The numbers of the readings on their way.
Numbered == \A g \in gets : g.n \in Nat

\* Everything up to date.
LEMMA SettledAll ==
    ASSUME Numbered, NEW s, NEW n \in Nat, NEW aw,
           Out = {}, UpTo(s), \A g \in gets : g.n >= n => UpTo(g.s)
    PROVE  Settled(s, n, aw)
<1>1. \A g, h \in gets : g.n >= n /\ g.n <= h.n => h.n >= n
  BY DEF Numbered
<1> QED
  BY <1>1 DEF Settled, Sound

\* The wait that is kept after showing a reading.
LEMMA SettledStill ==
    ASSUME Numbered, NEW s, NEW n \in Nat, NEW aw, Settled(s, n, aw)
    PROVE  Settled(s, n, Still(s, aw))
<1>1. CASE Waits(s, aw)
  BY <1>1 DEF Waits, Still
<1>2. CASE ~Waits(s, aw)
  BY <1>2, SettledAll DEF Settled, Sound
<1> QED
  BY <1>1, <1>2

\* What is newest keeps its contents.
SameNewest == Latest(newest)' = Latest(newest) /\ sess'[newest'].draft = sess[newest].draft

\* What is up to date stays so.
LEMMA UpToKeeps ==
    ASSUME SameNewest, NEW s
    PROVE  UpTo(s)' <=> UpTo(s)
BY DEF SameNewest, UpTo

\* What is waited for stays so.
LEMMA WaitsKeeps ==
    ASSUME SameNewest, NEW aw, Waits(sess[newest], aw)
    PROVE  Waits(sess[newest], aw)'
BY DEF SameNewest, Waits, Latest

\* A step that leaves the contents and the agent alone.
LEMMA SettledKeeps ==
    ASSUME SameNewest, Out' = Out, gets' \subseteq gets, NEW s, NEW n, NEW aw, Settled(s, n, aw)
    PROVE  Settled(s, n, aw)'
<1>1. \A x, a : Waits(x, a)' <=> Waits(x, a)
  BY DEF Waits
<1>2. \A x : UpTo(x)' <=> UpTo(x)
  BY UpToKeeps
<1>3. \A x, a : Sound(x, a)' <=> Sound(x, a)
  BY <1>1, <1>2 DEF Sound
<1>4. Out' # {} => Waits(sess[newest], aw)'
  BY WaitsKeeps DEF Settled
<1>5. ASSUME NEW g \in gets', g.n >= n
      PROVE  /\ Sound(g.s, aw)'
             /\ ~Waits(s, aw)' => UpTo(g.s)'
             /\ ~Waits(g.s, aw)' => \A h \in gets' : g.n <= h.n => UpTo(h.s)'
  <2>1. g \in gets
    BY <1>5
  <2>2. Sound(g.s, aw) /\ (~Waits(s, aw) => UpTo(g.s)) /\ (~Waits(g.s, aw) => \A h \in gets : g.n <= h.n => UpTo(h.s))
    BY <1>5, <2>1 DEF Settled
  <2> QED
    BY <1>1, <1>2, <1>3, <2>2
<1>6. Sound(s, aw)'
  BY <1>3 DEF Settled
<1> QED
  BY <1>4, <1>5, <1>6 DEF Settled

\* The agent is done.
LEMMA SettledDone ==
    ASSUME Out # {}, Out' = {}, gets' = gets, NEW s, NEW n, NEW aw, Settled(s, n, aw)
    PROVE  Settled(s, n, aw)'
<1>1. \A x, a : Waits(x, a)' <=> Waits(x, a)
  BY DEF Waits
<1>2. Waits(s, aw) /\ \A g \in gets : g.n >= n => Waits(g.s, aw)
  BY DEF Settled, Sound
<1>3. Waits(s, aw)' /\ \A g \in gets' : g.n >= n => Waits(g.s, aw)'
  BY <1>1, <1>2
<1> QED
  BY <1>3 DEF Settled, Sound

\* A poll reads what is newest.
LEMMA SettledPoll ==
    ASSUME PollIs, PageShape, Numbered, rev \in Nat, NEW s, NEW n, NEW aw, Settled(s, n, aw)
    PROVE  Settled(s, n, aw)'
<1> DEFINE new == Reads(newest)
<1>1. UNCHANGED <<sess, newest, rev, reply>> /\ gets' = gets \cup {new}
  BY DEF PollIs
<1>2. SameNewest /\ Out' = Out
  BY <1>1 DEF SameNewest, Latest, Out
<1>3. \A x, a : Waits(x, a)' <=> Waits(x, a)
  BY DEF Waits
<1>4. \A x : UpTo(x)' <=> UpTo(x)
  BY <1>2, UpToKeeps
<1>5. \A x, a : Sound(x, a)' <=> Sound(x, a)
  BY <1>2, <1>3, <1>4 DEF Sound
<1>6. new.s = sess[newest] /\ new.n = rev
  BY DEF Reads
<1>7. UpTo(new.s) /\ Sound(new.s, aw)
  BY <1>6 DEF UpTo, Latest, Sound, Settled
<1>8. \A h \in gets : rev <= h.n => UpTo(h.s)
  BY <1>6, <1>7 DEF PageShape, Numbered
<1>9. ASSUME NEW g \in gets', g.n >= n
      PROVE  /\ Sound(g.s, aw)
             /\ ~Waits(s, aw) => UpTo(g.s)
             /\ ~Waits(g.s, aw) => \A h \in gets' : g.n <= h.n => UpTo(h.s)
  <2>1. CASE g \in gets
    BY <1>1, <1>7, <1>9, <2>1 DEF Settled
  <2>2. CASE g = new
    BY <1>1, <1>6, <1>7, <1>8, <2>2
  <2> QED
    BY <1>1, <2>1, <2>2
<1>10. Out' # {} => Waits(sess[newest], aw)'
  BY <1>2, WaitsKeeps DEF Settled
<1>11. Sound(s, aw)'
  BY <1>5 DEF Settled
<1>12. ASSUME NEW g \in gets', g.n >= n
       PROVE  /\ Sound(g.s, aw)'
              /\ ~Waits(s, aw)' => UpTo(g.s)'
              /\ ~Waits(g.s, aw)' => \A h \in gets' : g.n <= h.n => UpTo(h.s)'
  BY <1>3, <1>4, <1>5, <1>9, <1>12
<1> QED
  BY <1>10, <1>11, <1>12 DEF Settled

\* A reading that is not older is shown.
LEMMA SettledShown ==
    ASSUME Numbered, NEW s, NEW n \in Nat, NEW aw, Settled(s, n, aw), NEW got \in gets, n <= got.n
    PROVE  Settled(got.s, got.n, aw)
<1>1. \A g \in gets : g.n >= got.n => g.n >= n
  BY DEF Numbered
<1> QED
  BY <1>1 DEF Settled, Numbered

\* The same about the page.
LEMMA SettledPage ==
    ASSUME NEW s, NEW n, NEW aw, page'.view = s, page'.n = n, page'.awaiting = aw, Settled(s, n, aw)'
    PROVE  Settled(page.view, page.n, page.awaiting)'
BY DEF Settled, Sound, Waits, UpTo

\* The same about the response of a request.
LEMMA SettledGot ==
    ASSUME NEW r \in Calls, NEW s, NEW n, NEW aw, call'[r].got.s = s, call'[r].got.n = n, Awaited(r)' = aw, Settled(s, n, aw)'
    PROVE  Settled(call[r].got.s, call[r].got.n, Awaited(r))'
BY DEF Settled, Sound, Waits, UpTo

\* A step keeps what is known of the readings.
LEMMA ViewsStep ==
    ASSUME TypeOK, Shape, Sane, TypeOK', Shape', ~Broken', NEW r \in Calls, StepOf(r)
    PROVE  Views'
<1>0. /\ Grows /\ Turns /\ Threads /\ Copies /\ Views /\ Once /\ Agreed /\ r # None
      /\ Out \subseteq {r} /\ Out' \subseteq {r}
      /\ \A q \in Calls : q # r => ~Running(q)' /\ call'[q] = call[q] /\ reply'[q] = reply[q]
      /\ Numbered /\ rev \in Nat /\ page.n \in Nat /\ call[r].got.n \in Nat
  BY GrowsStep, Alone, Types, OnboardingAssumption DEF Sane, Numbered, TypeOK, Reading
<1> DEFINE Free == page'.open /\ \A q \in Calls : page'.cur = q => ~Told(q)'
           W1 == Free => Settled(page.view, page.n, page.awaiting)'
           W2 == page'.cur = r /\ call'[r].kind = "start" /\ ~Told(r)' =>
                    /\ \A g \in gets' : UpTo(g.s)'
                    /\ call'[r].pc = "answered" => UpTo(call[r].got.s)'
           W3 == call'[r].pc = "answered" /\ Told(r)' => Settled(call[r].got.s, call[r].got.n, Awaited(r))'
           W4 == call'[r].pc = "refresh" => Refreshing(r)'
<1>1. ASSUME page'.cur \in {r, None}, W1, W2, W3, W4
      PROVE  Views'
  <2>1. \A q \in Calls : call'[q].pc \in {"answered", "refresh"} => q = r
    BY <1>0 DEF Running
  <2>2. \A q \in Calls : page'.cur = q => q = r
    BY <1>1, OnboardingAssumption
  <2> QED
    BY <1>1, <2>1, <2>2 DEF Views
<1>2. PICK v : v = page.view
  OBVIOUS
<1>3. PICK n \in Nat : n = page.n
  BY <1>0
<1>4. PICK aw : aw = page.awaiting
  OBVIOUS
<1>5. PICK gs : gs = call[r].got.s
  OBVIOUS
<1>6. PICK gn \in Nat : gn = call[r].got.n
  BY <1>0
<1>7. PICK ga : ga = Awaited(r)
  OBVIOUS
\* The page before the step.
<1>8. ASSUME page.open, \A q \in Calls : page.cur = q => ~Told(q)
      PROVE  Settled(v, n, aw)
  BY <1>0, <1>2, <1>3, <1>4, <1>8 DEF Views
<1>9. ASSUME call[r].pc = "answered", Told(r)
      PROVE  Settled(gs, gn, ga)
  BY <1>0, <1>5, <1>6, <1>7, <1>9 DEF Views
<1>10. ASSUME reply' = reply PROVE Out' = Out
  BY <1>10 DEF Out
<1>11. ASSUME Steady, newest' = newest, newest \in Calls PROVE SameNewest
  BY <1>11 DEF Steady, SameNewest
<1>12. ASSUME sess' = sess, newest' = newest PROVE SameNewest
  BY <1>12 DEF SameNewest, Latest
<1>13. ASSUME page' = page, Settled(v, n, aw)' PROVE W1
  <2>1. page'.view = v /\ page'.n = n /\ page'.awaiting = aw
    BY <1>2, <1>3, <1>4, <1>13
  <2> QED
    BY <1>13, <2>1, SettledPage
<1>14. ASSUME page' = page, call'[r].got = call[r].got, call'[r].kind = call[r].kind, call'[r].about = call[r].about, Settled(gs, gn, ga)'
       PROVE  Settled(call[r].got.s, call[r].got.n, Awaited(r))'
  <2>1. call'[r].got.s = gs /\ call'[r].got.n = gn /\ Awaited(r)' = ga
    BY <1>5, <1>6, <1>7, <1>14 DEF Awaited
  <2> QED
    BY <1>14, <2>1, SettledGot
<1>15. CASE SendIs(r)
  <2>1. page.cur = r /\ page' = page /\ Told(r)' /\ call'[r].pc = "store"
    BY <1>0, <1>15, SendMeans, RunningIs DEF SendIs, Told, Goes, CallIs
  <2> QED
    BY <1>1, <2>1
<1>16. CASE StoreAnswerIs(r)
  <2>1. /\ Running(r) /\ reply[r].pc # "none" /\ call[r].sid = newest /\ newest' = newest /\ newest \in Calls
        /\ Steady /\ Latest(newest) = call[r].about
    BY <1>0, <1>16, StoreAnswerMeans
  <2>2. /\ page' = page /\ page.cur = r /\ Told(r)' /\ call[r].kind = "answer"
        /\ call'[r].pc = "refresh" /\ call'[r].kind = "answer" /\ call'[r].sid = call[r].sid /\ call'[r].about = call[r].about
    BY <1>0, <1>16, <2>1, RunningIs DEF StoreAnswerIs, CallIs, Told
  <2>3. call[r].about # None
    BY <1>0, <2>2 DEF Once, OfStored
  <2>4. Latest(newest)' = call[r].about
    BY <2>1 DEF Steady
  <2>5. Refreshing(r)'
    BY <2>1, <2>2, <2>3, <2>4 DEF Refreshing, Awaited, Waits, Latest
  <2> QED
    BY <1>1, <2>2, <2>5
<1>17. CASE StoreTouchIs(r)
  <2>1. /\ Running(r) /\ reply[r].pc # "none" /\ newest' = call[r].sid /\ newest' \in Calls
        /\ (Latest(newest') = None \/ reply[r].pc = "ok")
    BY <1>0, <1>17, StoreTouchMeans
  <2>2. /\ page' = page /\ page.cur = r /\ Told(r)' /\ sess' = sess /\ reply' = reply
        /\ call'[r].pc = "refresh" /\ call'[r].kind = "start" /\ call'[r].sid = call[r].sid
    BY <1>0, <1>17, <2>1, RunningIs DEF StoreTouchIs, CallIs, Told
  <2>3. page'.awaiting = None
    BY <2>2 DEF Shape, PageShape
  <2>4. PICK i \in Calls : i = newest'
    BY <2>1
  <2>5. Latest(i) = None => LastAgent(sess'[i].msgs) = None /\ sess'[i].draft = None
    BY <1>0, <2>2, <2>4 DEF Threads, Latest
  <2>6. reply[r].pc = "ok" => Out' = {}
    BY <1>0, <2>2 DEF Out
  <2>7. Refreshing(r)'
    BY <2>1, <2>2, <2>3, <2>4, <2>5, <2>6 DEF Refreshing, Awaited, Waits
  <2> QED
    BY <1>1, <2>2, <2>7
<1>18. CASE StoreNewIs(r)
  <2>1. Running(r) /\ reply[r].pc # "none" /\ newest' = r
    BY <1>0, <1>18, StoreNewMeans
  <2>2. /\ page' = page /\ page.cur = r /\ Told(r)'
        /\ sess'[r].draft = None /\ sess'[r].msgs = <<By("user", r)>>
        /\ call'[r].pc = "refresh" /\ call'[r].kind = "start" /\ call'[r].sid = r
    BY <1>0, <1>18, <2>1, RunningIs DEF StoreNewIs, CallIs, SessIs, Told
  <2>3. page'.awaiting = None
    BY <2>2 DEF Shape, PageShape
  <2>4. LastAgent(sess'[r].msgs) = None
    BY <2>2, NoMessages
  <2>5. Refreshing(r)'
    BY <2>1, <2>2, <2>3, <2>4 DEF Refreshing, Awaited, Waits
  <2> QED
    BY <1>1, <2>2, <2>5
<1>19. CASE RefreshIs(r) /\ call[r].sid \in Calls
  <2>1. /\ call[r].pc = "refresh" /\ Running(r) /\ Told(r) /\ page' = page /\ reply' = reply /\ sess' = sess /\ newest' = newest
        /\ gets' = gets /\ call[r].kind # "confirm"
        /\ call'[r].kind = call[r].kind /\ call'[r].about = call[r].about /\ call'[r].got = Reads(call[r].sid)
    BY <1>19 DEF RefreshIs, CallIs, Running, Told, Shape, CallShape, CallFits
  <2>2. page.cur = r /\ Told(r)'
    BY <1>0, <2>1, RunningIs DEF Told
  <2>3. PICK s : s = sess[call[r].sid]
    OBVIOUS
  <2>4. PICK m \in Nat : m = rev
    BY <1>0
  <2>5. \A g \in gets : g.n >= m => g.s = sess[newest]
    BY <1>0, <2>4 DEF Shape, PageShape, Numbered
  <2>6. Refreshing(r)
    BY <1>0, <2>1 DEF Views
  <2>7. Waits(s, ga) \/ (Out = {} /\ call[r].sid = newest)
    BY <1>7, <2>3, <2>6 DEF Refreshing
  <2>8. UpTo(sess[newest])
    BY DEF UpTo, Latest
  <2>9. Sound(s, ga)
    BY <2>3, <2>7, <2>8 DEF Sound
  <2>10. Out # {} => Waits(sess[newest], ga)
    BY <1>7, <2>6 DEF Refreshing
  <2>11. Settled(s, m, ga)
    <3>1. ASSUME NEW g \in gets, g.n >= m
          PROVE  Sound(g.s, ga) /\ UpTo(g.s) /\ \A h \in gets : g.n <= h.n => UpTo(h.s)
      <4>1. \A h \in gets : g.n <= h.n => h.n >= m
        BY <1>0, <3>1 DEF Numbered
      <4> QED
        BY <2>5, <2>8, <2>10, <3>1, <4>1 DEF Sound
    <3> QED
      BY <2>9, <2>10, <3>1 DEF Settled
  <2>12. SameNewest /\ Out' = Out /\ gets' \subseteq gets
    BY <1>10, <1>12, <2>1
  <2>13. Settled(s, m, ga)'
    BY <2>11, <2>12, SettledKeeps
  <2>14. call'[r].got.s = s /\ call'[r].got.n = m /\ Awaited(r)' = ga
    BY <1>7, <2>1, <2>3, <2>4 DEF Reads, Awaited
  <2>15. Settled(call[r].got.s, call[r].got.n, Awaited(r))'
    BY <2>13, <2>14, SettledGot
  <2>16. call'[r].pc = "answered"
    BY <1>19 DEF RefreshIs, CallIs
  <2> QED
    BY <1>1, <2>1, <2>2, <2>15, <2>16
<1>20. CASE StoreConfirmIs(r) \/ FailIs(r)
  <2>1. Running(r) /\ reply' = reply /\ reply[r].pc = "none" /\ page' = page /\ gets' = gets /\ SameNewest
    <3>1. CASE StoreConfirmIs(r)
      BY <1>0, <1>11, <3>1, StoreConfirmMeans DEF StoreConfirmIs
    <3>2. CASE FailIs(r)
      BY <1>0, <1>12, <3>2, FailMeans DEF FailIs
    <3> QED
      BY <1>20, <3>1, <3>2
  <2>2. page.cur = r /\ page.open /\ ~Told(r) /\ ~Told(r)' /\ Out' = Out
    BY <1>0, <1>10, <2>1, RunningIs DEF Told
  <2>3. \A q \in Calls : page.cur = q => ~Told(q)
    BY <2>2
  <2>4. Settled(v, n, aw)
    BY <1>8, <2>2, <2>3
  <2>5. W1
    BY <1>13, <2>1, <2>2, <2>4, SettledKeeps
  <2>6. call'[r].kind = call[r].kind /\ (call'[r].pc = "answered" => call[r].kind = "confirm") /\ call'[r].pc # "refresh"
    BY <1>20 DEF StoreConfirmIs, FailIs, Goes, Ended, CallIs
  <2>7. call[r].kind = "start" => \A g \in gets : UpTo(g.s)'
    BY <1>0, <2>1, <2>2, UpToKeeps DEF Views
  <2> QED
    BY <1>1, <2>1, <2>2, <2>5, <2>6, <2>7
<1>21. CASE LoadRefusedIs(r) \/ LoadIs(r) \/ StoreReplyIs(r)
  <2>1. /\ Out = {r} /\ page' = page /\ gets' = gets /\ call' = call /\ reply'[r].pc # "none"
        /\ \/ Out' = {} \/ (Out' = Out /\ SameNewest)
    BY <1>0, <1>12, <1>21, LoadRefusedMeans, LoadMeans, StoreReplyMeans DEF LoadRefusedIs, LoadIs, StoreReplyIs
  <2>2. Told(r) /\ Told(r)'
    BY <2>1 DEF Told, Out
  <2>3. ASSUME NEW s, NEW k, NEW a, Settled(s, k, a) PROVE Settled(s, k, a)'
    BY <2>1, <2>3, SettledKeeps, SettledDone
  <2>4. page.cur \in {r, None}
    <3>1. \A q \in Calls : page.cur = q => q = r
      BY <1>0, <2>1 DEF Turns
    <3> QED
      BY <3>1, Types
  <2>5. W1
    <3>1. Free => page.open /\ \A q \in Calls : page.cur = q => ~Told(q)
      BY <2>1, <2>2, <2>4, OnboardingAssumption
    <3> QED
      BY <1>8, <1>13, <2>1, <2>3, <3>1
  <2>6. W3
    BY <1>9, <1>14, <2>1, <2>2, <2>3
  <2>7. W4
    <3> SUFFICES ASSUME call[r].pc = "refresh" PROVE Refreshing(r)'
      BY <2>1
    <3>1. Refreshing(r) /\ Awaited(r)' = Awaited(r) /\ Waits(sess[call[r].sid], Awaited(r))
      BY <1>0, <2>1 DEF Views, Refreshing, Awaited
    <3>2. call[r].sid = newest
      BY <1>0, <2>1 DEF Views, Refreshing
    <3>3. CASE sess' = sess /\ newest' = newest
      BY <2>1, <3>1, <3>2, <3>3 DEF Refreshing, Waits
    <3>4. CASE StoreReplyIs(r)
      <4>1. PICK i \in Calls :
                  /\ newest' = i
                  /\ \A k \in Calls : k # i => sess'[k] = sess[k]
                  /\ i # newest => call[r].kind # "answer"
        BY <1>0, <3>4, StoreReplyMeans
      <4>2. Out' = {} /\ call[r].sid \in Calls
        BY <1>0, <3>4, StoreReplyMeans, Types, <3>2 DEF Shape, CallShape, CallFits, Running
      <4> QED
        BY <2>1, <3>1, <3>2, <4>1, <4>2 DEF Refreshing, Waits
    <3> QED
      BY <1>21, <3>3, <3>4 DEF LoadRefusedIs, LoadIs
  <2> QED
    BY <1>1, <2>1, <2>2, <2>4, <2>5, <2>6, <2>7
<1>22. CASE OpenIs(r)
  <2>1. /\ Out = {} /\ gets = {} /\ reply[r].pc = "none" /\ reply' = reply /\ gets' = gets /\ sess' = sess /\ newest' = newest
        /\ call'[r].pc \in {"send", "answered"} /\ (call'[r].pc = "answered" => UpTo(call'[r].got.s))
        /\ page'.view = NoSession /\ page'.n = 0 /\ page'.awaiting = None /\ page'.cur = r
    BY <1>0, <1>22, OpenMeans DEF OpenIs, PageIs
  <2>2. Out' = {} /\ ~Told(r)'
    BY <1>10, <2>1 DEF Told
  <2>3. Waits(NoSession, None)'
    BY NoMessages DEF Waits, NoSession
  <2>4. Settled(NoSession, 0, None)'
    BY <2>1, <2>2, <2>3 DEF Settled, Sound
  <2>5. Settled(page.view, page.n, page.awaiting)'
    BY <2>1, <2>4, SettledPage
  <2>6. call'[r].pc = "answered" => UpTo(call[r].got.s)'
    BY <2>1 DEF UpTo, Latest
  <2> QED
    BY <1>1, <2>1, <2>2, <2>5, <2>6
<1>23. CASE AnswerIs(r)
  <2>1. /\ Out = {} /\ UpTo(v) /\ reply[r].pc = "none" /\ ~Waits(v, aw) /\ Settled(v, n, aw)
    BY <1>0, <1>2, <1>3, <1>4, <1>23, AnswerMeans
  <2>2. /\ reply' = reply /\ gets' = gets /\ sess' = sess /\ newest' = newest
        /\ page'.view = v /\ page'.n = n /\ page'.awaiting = None /\ page'.cur = r
        /\ call'[r].kind = "answer" /\ call'[r].pc = "send"
    BY <1>2, <1>3, <1>23 DEF AnswerIs, PageIs, CallIs
  <2>3. Settled(v, n, None)
    BY <1>0, <2>1, SettledAll DEF Settled
  <2>4. Settled(v, n, None)'
    BY <1>10, <1>12, <2>2, <2>3, SettledKeeps
  <2>5. Settled(page.view, page.n, page.awaiting)'
    BY <2>2, <2>4, SettledPage
  <2> QED
    BY <1>1, <2>2, <2>5
<1>24. CASE ConfirmIs(r)
  <2>1. Settled(v, n, aw) /\ reply[r].pc = "none"
    BY <1>0, <1>2, <1>3, <1>4, <1>24, ConfirmMeans
  <2>2. /\ reply' = reply /\ gets' = gets /\ sess' = sess /\ newest' = newest
        /\ page'.view = v /\ page'.n = n /\ page'.awaiting = aw /\ page'.cur = r
        /\ call'[r].kind = "confirm" /\ call'[r].pc = "store"
    BY <1>2, <1>3, <1>4, <1>24 DEF ConfirmIs, PageIs, CallIs
  <2>3. Settled(v, n, aw)'
    BY <1>10, <1>12, <2>1, <2>2, SettledKeeps
  <2>4. Settled(page.view, page.n, page.awaiting)'
    BY <2>2, <2>3, SettledPage
  <2> QED
    BY <1>1, <2>2, <2>4
<1>25. CASE ArriveShownIs(r)
  <2>1. /\ page.cur = r /\ call[r].pc = "answered" /\ call[r].kind # "confirm"
        /\ reply' = reply /\ gets' = gets /\ sess' = sess /\ newest' = newest
        /\ page'.view = gs /\ page'.n = gn /\ page'.awaiting = Still(gs, ga) /\ page'.cur = None
        /\ call'[r].pc = "ok"
    BY <1>5, <1>6, <1>7, <1>25 DEF ArriveShownIs, ShownIs, PageIs, Ended, CallIs
  <2>2. PICK st : st = Still(gs, ga)
    OBVIOUS
  <2>3. Settled(gs, gn, st)
    <3>1. CASE Told(r)
      BY <1>0, <1>9, <2>1, <2>2, <3>1, SettledStill
    <3>2. CASE ~Told(r)
      <4>1. call[r].kind = "start"
        BY <2>1, <3>2, Types DEF Told, Shape, CallShape, CallFits, CallState
      <4>2. (\A g \in gets : UpTo(g.s)) /\ UpTo(gs) /\ Out = {}
        BY <1>0, <1>5, <2>1, <3>2, <4>1 DEF Views, Turns
      <4> QED
        BY <1>0, <4>2, SettledAll
    <3> QED
      BY <3>1, <3>2
  <2>4. Settled(gs, gn, st)'
    BY <1>10, <1>12, <2>1, <2>3, SettledKeeps
  <2>5. Settled(page.view, page.n, page.awaiting)'
    BY <2>1, <2>2, <2>4, SettledPage
  <2> QED
    BY <1>0, <1>1, <2>1, <2>5
<1>26. CASE ArriveClosesIs(r)
  <2>1. page'.open = FALSE /\ page'.cur = None /\ call'[r].pc = "ok"
    BY <1>26 DEF ArriveClosesIs, Closed, Ended, CallIs
  <2> QED
    BY <1>0, <1>1, <2>1
<1>27. CASE ArriveFailedIs(r)
  <2>1. /\ page.cur = r /\ call[r].pc = "failed" /\ call' = call
        /\ reply' = reply /\ gets' = gets /\ sess' = sess /\ newest' = newest
        /\ page'.view = v /\ page'.n = n /\ page'.awaiting = aw /\ page'.cur = None
    BY <1>2, <1>3, <1>4, <1>27 DEF ArriveFailedIs, PageIs
  <2>2. ~Told(r) /\ page.open
    BY <1>0, <2>1 DEF Turns, Shape, PageShape, Closed
  <2>3. \A q \in Calls : page.cur = q => ~Told(q)
    BY <2>1, <2>2
  <2>4. Settled(v, n, aw)'
    BY <1>8, <1>10, <1>12, <2>1, <2>2, <2>3, SettledKeeps
  <2>5. Settled(page.view, page.n, page.awaiting)'
    BY <2>1, <2>4, SettledPage
  <2> QED
    BY <1>0, <1>1, <2>1, <2>5
<1> QED
  BY <1>15, <1>16, <1>17, <1>18, <1>19, <1>20, <1>21, <1>22, <1>23, <1>24, <1>25, <1>26, <1>27 DEF StepOf
-----------------------------------------------------------------------------
(* No message is answered twice *)

\* A request that is there keeps its kind and what it is about, and is asked once.
LEMMA AskedIs ==
    ASSUME TypeOK, Shape, NEW r \in Calls, StepOf(r), ~OpenIs(r), ~AnswerIs(r), ~ConfirmIs(r)
    PROVE  /\ call'[r].kind = call[r].kind /\ call'[r].about = call[r].about
           /\ call'[r].pc = "send" => call[r].pc = "send" /\ (LoadRefusedIs(r) \/ LoadIs(r) \/ StoreReplyIs(r))
BY DEF StepOf, SendIs, StoreAnswerIs, StoreTouchIs, StoreNewIs, RefreshIs, StoreConfirmIs, FailIs, LoadRefusedIs, LoadIs, StoreReplyIs,
   ArriveShownIs, ArriveClosesIs, ArriveFailedIs, CallIs, Goes, Ended

\* Only the agent and the sending of a message change the replies.
LEMMA TellsIs ==
    ASSUME TypeOK, Shape, Turns, ~Broken', NEW r \in Calls, StepOf(r), ~SendIs(r), ~LoadRefusedIs(r), ~LoadIs(r), ~StoreReplyIs(r)
    PROVE  reply' = reply
BY FailMeans DEF StepOf, StoreAnswerIs, StoreTouchIs, StoreNewIs, RefreshIs, StoreConfirmIs, OpenIs, AnswerIs, ConfirmIs,
   ArriveShownIs, ArriveClosesIs, ArriveFailedIs

\* Only the agent's commit changes what the sessions hold of the agent.
LEMMA SteadyIs ==
    ASSUME TypeOK, Shape, Sane, ~Broken', NEW r \in Calls, StepOf(r), ~StoreReplyIs(r)
    PROVE  Steady
<1>1. Turns /\ Threads /\ Copies /\ Agreed
  BY DEF Sane
<1>2. CASE sess' = sess
  BY <1>2 DEF Steady, Latest, Has
<1>3. CASE StoreAnswerIs(r) \/ StoreTouchIs(r) \/ StoreNewIs(r) \/ StoreConfirmIs(r)
  BY <1>1, <1>3, StoreAnswerMeans, StoreTouchMeans, StoreNewMeans, StoreConfirmMeans
<1> QED
  BY <1>2, <1>3 DEF StepOf, SendIs, RefreshIs, FailIs, LoadRefusedIs, LoadIs, OpenIs, AnswerIs, ConfirmIs,
     ArriveShownIs, ArriveClosesIs, ArriveFailedIs

\* An answer the agent has was there before the step.
LEMMA AnswerWas ==
    ASSUME TypeOK, Shape, Sane, ~Broken', NEW r \in Calls, StepOf(r), NEW q \in Calls, call'[q].kind = "answer", Told(q)'
    PROVE  /\ call[q].kind = "answer" /\ call[q].about = call'[q].about
           /\ Told(q) \/ (q = r /\ SendIs(r))
           /\ reply'[q].pc = reply[q].pc \/ (q = r /\ (SendIs(r) \/ LoadRefusedIs(r) \/ LoadIs(r) \/ StoreReplyIs(r)))
<1>1. /\ \A p \in Calls : p # r => call'[p] = call[p] /\ reply'[p] = reply[p]
      /\ Turns /\ Threads /\ Views
  BY GrowsStep DEF Sane
<1>2. CASE q # r
  BY <1>1, <1>2 DEF Told
<1>3. CASE q = r
  <2>1. CASE OpenIs(r) \/ AnswerIs(r) \/ ConfirmIs(r)
    <3>1. reply' = reply /\ reply[r].pc = "none"
      BY <1>1, <2>1, OpenMeans, AnswerMeans, ConfirmMeans DEF OpenIs, AnswerIs, ConfirmIs
    <3> QED
      BY <1>3, <3>1 DEF Told
  <2>2. CASE ~(OpenIs(r) \/ AnswerIs(r) \/ ConfirmIs(r))
    <3>1. call'[r].kind = call[r].kind /\ call'[r].about = call[r].about
      BY <2>2, AskedIs
    <3>2. reply' = reply \/ SendIs(r) \/ LoadRefusedIs(r) \/ LoadIs(r) \/ StoreReplyIs(r)
      BY <1>1, TellsIs
    <3>3. LoadRefusedIs(r) \/ LoadIs(r) \/ StoreReplyIs(r) => Told(r)
      BY DEF LoadRefusedIs, LoadIs, StoreReplyIs, Told
    <3> QED
      BY <1>3, <3>1, <3>2, <3>3 DEF Told
  <2> QED
    BY <2>1, <2>2
<1> QED
  BY <1>2, <1>3

\* While an answer is refused the page does not ask.
LEMMA RefusedAsks ==
    ASSUME TypeOK, Shape, Sane, NEW q \in Calls, call[q].kind = "answer", reply[q].pc = "refused"
    PROVE  \A r \in Calls : ~OpenIs(r) /\ ~AnswerIs(r) /\ ~ConfirmIs(r)
<1>1. /\ Latest(newest) = call[q].about /\ call[q].about # None
      /\ page.open => page.cur = q \/ (page.cur = None /\ page.awaiting = call[q].about)
  BY DEF Sane, Once, Refused, OfStored
<1>2. board.goal # None
  BY DEF Shape, ReplyShape, ReplyFits
<1>3. page.open /\ ~Loading => IsAwaiting
  BY <1>1, OnboardingAssumption DEF Loading, IsAwaiting, Seen, Shape, PageShape
<1> QED
  BY <1>2, <1>3 DEF OpenIs, AnswerIs, ConfirmIs

\* A step keeps OfStored: an answer is about a message that is shown, and stored.
LEMMA OfStoredStep ==
    ASSUME TypeOK, Shape, Sane, TypeOK', Shape', ~Broken', NEW r \in Calls, StepOf(r)
    PROVE  OfStored'
<1>1. /\ Grows /\ Turns /\ Threads /\ Copies /\ Views /\ Agreed /\ OfStored
      /\ \A q \in Calls : q # r => call'[q] = call[q]
  BY GrowsStep DEF Sane, Once
<1> SUFFICES ASSUME NEW q \in Calls, call'[q].kind = "answer"
             PROVE  call'[q].about # None /\ reply'[call'[q].about].pc = "ok"
  BY DEF OfStored
<1>2. CASE call[q].kind = "answer" /\ call'[q].about = call[q].about
  BY <1>1, <1>2, Types DEF OfStored, Grows
<1>3. CASE AnswerIs(r) /\ q = r
  <2>1. Seen = Latest(newest) /\ Seen # None /\ Seen \in Calls /\ newest \in Calls /\ call'[r].about = Seen /\ reply' = reply
    BY <1>1, <1>3, AnswerMeans DEF AnswerIs, CallIs
  <2>2. reply[Seen].pc = "ok"
    BY <2>1, LatestIs DEF Shape, Stored, Has
  <2> QED
    BY <1>3, <2>1, <2>2
<1>4. OpenIs(r) \/ ConfirmIs(r) => call'[r].kind # "answer"
  BY DEF OpenIs, ConfirmIs, CallIs
<1> QED
  BY <1>1, <1>2, <1>3, <1>4, AskedIs

\* A step keeps Fresh: the page may ask only when the last message has no answer.
LEMMA FreshStep ==
    ASSUME TypeOK, Shape, Sane, TypeOK', Shape', ~Broken', NEW r \in Calls, StepOf(r)
    PROVE  Fresh'
<1>1. /\ Turns /\ Threads /\ Copies /\ Views /\ Agreed /\ Once
      /\ \A q \in Calls : q # r => call'[q] = call[q] /\ reply'[q] = reply[q] /\ ~Running(q)'
  BY GrowsStep, Alone DEF Sane
<1> SUFFICES ASSUME NEW a \in Calls, NEW q \in Calls, call'[a].kind = "answer", call'[a].pc = "send", call'[q].kind = "answer", Told(q)'
             PROVE  call'[q].about # call'[a].about
  BY DEF Fresh
<1>2. a = r
  BY <1>1 DEF Running
<1>3. AnswerIs(r)
  <2>1. LoadRefusedIs(r) \/ LoadIs(r) \/ StoreReplyIs(r) => call[r].pc # "send"
    BY DEF LoadRefusedIs, LoadIs, StoreReplyIs, Shape, CallShape, CallFits
  <2>2. OpenIs(r) \/ ConfirmIs(r) => call'[r].kind # "answer"
    BY DEF OpenIs, ConfirmIs, CallIs
  <2> QED
    BY <1>2, <2>1, <2>2, AskedIs
<1>4. /\ Out = {} /\ newest \in Calls /\ reply' = reply
      /\ call'[a].about = Latest(newest)
  BY <1>1, <1>2, <1>3, AnswerMeans DEF AnswerIs, CallIs
<1>5. call[q].kind = "answer" /\ call[q].about = call'[q].about /\ Told(q)
  BY <1>4, AnswerWas DEF Told
<1>6. reply[q].pc # "refused"
  BY <1>3, <1>5, RefusedAsks
<1>7. reply[q].pc = "ok"
  BY <1>4, <1>5, <1>6, Types DEF Told, Out, ReplyState
<1> QED
  BY <1>1, <1>4, <1>5, <1>7 DEF Once, MovedOn

\* A step keeps MovedOn: the reply to an answer comes after what was answered.
LEMMA MovedOnStep ==
    ASSUME TypeOK, Shape, Sane, TypeOK', Shape', ~Broken', NEW r \in Calls, StepOf(r)
    PROVE  MovedOn'
<1>1. /\ Turns /\ Threads /\ Copies /\ Once
      /\ \A q \in Calls : q # r => reply'[q] = reply[q]
  BY GrowsStep DEF Sane
<1> SUFFICES ASSUME NEW q \in Calls, NEW i \in Calls, call'[q].kind = "answer", reply'[q].pc = "ok"
             PROVE  Latest(i)' # call'[q].about
  BY DEF MovedOn
<1>2. /\ call[q].kind = "answer" /\ call[q].about = call'[q].about
      /\ reply'[q].pc = reply[q].pc \/ (q = r /\ (SendIs(r) \/ LoadRefusedIs(r) \/ LoadIs(r) \/ StoreReplyIs(r)))
  BY AnswerWas DEF Told
<1>3. call[q].about # None /\ reply[call[q].about].pc = "ok"
  BY <1>1, <1>2 DEF Once, OfStored
<1>4. CASE StoreReplyIs(r)
  <2>1. reply[r].pc = "store" /\ r \in Out
    BY <1>4 DEF StoreReplyIs, Out
  <2>2. PICK k \in Calls :
              /\ Latest(k)' = r
              /\ \A j \in Calls : j # k => Latest(j)' = Latest(j)
              /\ k # newest => call[r].kind # "answer"
    BY <1>1, <1>4, StoreReplyMeans
  <2>3. CASE i = k
    BY <1>2, <1>3, <2>1, <2>2, <2>3
  <2>4. CASE i # k /\ q # r
    BY <1>1, <1>2, <2>2, <2>4 DEF Once, MovedOn
  <2>5. CASE i # k /\ q = r
    <3>1. k = newest /\ Latest(newest) = call[q].about
      BY <1>1, <1>2, <2>1, <2>2, <2>5 DEF Copies
    <3>2. Latest(k) \in Has(k) /\ (Latest(i) # None => Latest(i) \in Has(i))
      BY <1>3, <3>1, LatestIs
    <3>3. Latest(i) # Latest(k)
      BY <1>1, <1>3, <2>5, <3>1, <3>2 DEF Threads
    <3> QED
      BY <1>2, <2>2, <2>5, <3>1, <3>3
  <2> QED
    BY <2>3, <2>4, <2>5
<1>5. CASE ~StoreReplyIs(r)
  <2>1. reply[q].pc = "ok"
    BY <1>2, <1>5 DEF SendIs, LoadRefusedIs, LoadIs, Hears, ReplyIs
  <2>2. Latest(i)' = Latest(i)
    BY <1>5, SteadyIs DEF Steady
  <2> QED
    BY <1>1, <1>2, <2>1, <2>2 DEF Once, MovedOn
<1> QED
  BY <1>4, <1>5

\* A step keeps Refused: nothing shown after a refusal ends the wait.
LEMMA RefusedStep ==
    ASSUME TypeOK, Shape, Sane, TypeOK', Shape', ~Broken', NEW r \in Calls, StepOf(r)
    PROVE  Refused'
<1>1. /\ Turns /\ Threads /\ Copies /\ Views /\ Agreed /\ Once
      /\ Out \subseteq {r} /\ r # None
      /\ \A q \in Calls : q # r => reply'[q] = reply[q]
  BY GrowsStep, Alone, OnboardingAssumption DEF Sane
<1> SUFFICES ASSUME NEW q \in Calls, call'[q].kind = "answer", reply'[q].pc = "refused"
             PROVE  /\ Latest(newest)' = call'[q].about /\ Out' = {}
                    /\ page'.open => page'.cur = q \/ (page'.cur = None /\ page'.awaiting = call'[q].about)
  BY DEF Refused
<1>2. /\ call[q].kind = "answer" /\ call[q].about = call'[q].about
      /\ reply'[q].pc = reply[q].pc \/ (q = r /\ (SendIs(r) \/ LoadRefusedIs(r) \/ LoadIs(r) \/ StoreReplyIs(r)))
  BY AnswerWas DEF Told
<1>3. CASE q = r /\ LoadRefusedIs(r)
  <2>1. sess' = sess /\ newest' = newest /\ page' = page /\ r \in Out /\ Out' = {} /\ page.open
    BY <1>1, <1>3, LoadRefusedMeans DEF LoadRefusedIs
  <2>2. Latest(newest)' = Latest(newest) /\ Latest(newest) = call[r].about
    BY <1>1, <1>2, <1>3, <2>1 DEF Copies, Latest
  <2>3. page.cur \in {r, None}
    <3>1. \A x \in Calls : page.cur = x => x = r
      BY <1>1, <2>1 DEF Turns
    <3> QED
      BY <3>1, Types
  <2>4. ASSUME page.cur = None PROVE page.awaiting = call[r].about
    <3>1. Settled(page.view, page.n, page.awaiting)
      BY <1>1, <2>1, <2>4, OnboardingAssumption DEF Views
    <3> QED
      BY <2>1, <2>2, <3>1 DEF Settled, Waits, Latest
  <2> QED
    BY <1>2, <1>3, <2>1, <2>2, <2>3, <2>4
<1>4. CASE reply[q].pc = "refused"
  <2>1. /\ Latest(newest) = call[q].about /\ call[q].about # None /\ Out = {} /\ q # None
        /\ page.open => page.cur = q \/ (page.cur = None /\ page.awaiting = call[q].about)
    BY <1>1, <1>2, <1>4, OnboardingAssumption DEF Once, Refused, OfStored
  <2>2. ~OpenIs(r) /\ ~AnswerIs(r) /\ ~ConfirmIs(r)
    BY <1>2, <1>4, RefusedAsks
  <2>3. ~LoadRefusedIs(r) /\ ~LoadIs(r) /\ ~StoreReplyIs(r)
    BY <2>1 DEF LoadRefusedIs, LoadIs, StoreReplyIs, Out
  <2>4. Running(r) => r = q /\ page.open /\ Told(r)
    BY <1>1, <1>4, <2>1, RunningIs DEF Told
  <2>5. ~SendIs(r) /\ ~FailIs(r) /\ ~StoreConfirmIs(r) /\ ~StoreTouchIs(r) /\ ~StoreNewIs(r)
    <3>1. ~SendIs(r) /\ ~FailIs(r)
      BY <1>1, <2>4, SendMeans, FailMeans DEF Told
    <3>2. ~StoreConfirmIs(r) /\ ~StoreTouchIs(r) /\ ~StoreNewIs(r)
      BY <1>2, <2>4 DEF StoreConfirmIs, StoreTouchIs, StoreNewIs, Running
    <3> QED
      BY <3>1, <3>2
  <2>6. CASE StoreAnswerIs(r) \/ RefreshIs(r)
    <3>1. reply' = reply /\ page' = page
      BY <2>6 DEF StoreAnswerIs, RefreshIs
    <3>2. Latest(newest)' = Latest(newest)
      <4>1. CASE StoreAnswerIs(r)
        BY <1>1, <4>1, StoreAnswerMeans DEF Steady
      <4>2. CASE RefreshIs(r)
        BY <4>2 DEF RefreshIs, Latest
      <4> QED
        BY <2>6, <4>1, <4>2
    <3> QED
      BY <1>2, <2>1, <3>1, <3>2 DEF Out
  <2>7. CASE ArriveShownIs(r)
    <3>1. /\ reply' = reply /\ sess' = sess /\ newest' = newest /\ page.cur = r /\ Running(r) /\ call[r].pc = "answered"
          /\ page'.cur = None /\ page'.awaiting = Still(call[r].got.s, Awaited(r))
      BY <2>7 DEF ArriveShownIs, ShownIs, PageIs, Running
    <3>2. r = q /\ Told(r) /\ Awaited(r) = call[q].about
      BY <1>2, <2>4, <3>1 DEF Awaited
    <3>3. Settled(call[r].got.s, call[r].got.n, Awaited(r))
      BY <1>1, <3>1, <3>2 DEF Views
    <3>4. LastAgent(call[r].got.s.msgs) = call[q].about
      BY <2>1, <3>2, <3>3 DEF Settled, Sound, Waits, UpTo
    <3>5. page'.awaiting = call[q].about
      BY <3>1, <3>2, <3>4 DEF Still
    <3> QED
      BY <1>2, <2>1, <3>1, <3>5 DEF Out, Latest
  <2>8. CASE ArriveClosesIs(r)
    <3>1. reply' = reply /\ sess' = sess /\ newest' = newest /\ ~page'.open
      BY <2>8 DEF ArriveClosesIs, Closed
    <3> QED
      BY <1>2, <2>1, <3>1 DEF Out, Latest
  <2>9. ~ArriveFailedIs(r)
    <3> SUFFICES ASSUME ArriveFailedIs(r) PROVE FALSE
      OBVIOUS
    <3>1. page.cur = r /\ call[r].pc = "failed"
      BY DEF ArriveFailedIs
    <3>2. page.open
      BY <1>1, <3>1 DEF Shape, PageShape, Closed
    <3> QED
      BY <1>1, <1>4, <2>1, <3>1, <3>2 DEF Turns, Told
  <2> QED
    BY <2>2, <2>3, <2>5, <2>6, <2>7, <2>8, <2>9 DEF StepOf
<1>5. CASE q = r /\ (SendIs(r) \/ LoadIs(r) \/ StoreReplyIs(r))
  BY <1>5 DEF SendIs, LoadIs, StoreReplyIs, Hears, ReplyIs
<1> QED
  BY <1>2, <1>3, <1>4, <1>5

\* A step keeps Distinct: what is sent is fresh.
LEMMA DistinctStep ==
    ASSUME TypeOK, Shape, Sane, TypeOK', Shape', ~Broken', NEW r \in Calls, StepOf(r)
    PROVE  Distinct'
<1>1. Once
  BY DEF Sane
<1> SUFFICES ASSUME NEW p \in Calls, NEW q \in Calls, call'[p].kind = "answer", Told(p)', call'[q].kind = "answer", Told(q)',
                    call'[p].about = call'[q].about
             PROVE  p = q
  BY DEF Distinct
<1>2. /\ call[p].kind = "answer" /\ call[p].about = call'[p].about /\ (Told(p) \/ (p = r /\ SendIs(r)))
      /\ call[q].kind = "answer" /\ call[q].about = call'[q].about /\ (Told(q) \/ (q = r /\ SendIs(r)))
  BY AnswerWas
<1>3. SendIs(r) => call[r].pc = "send"
  BY DEF SendIs
<1> QED
  BY <1>1, <1>2, <1>3 DEF Once, Distinct, Fresh

\* A step keeps Once.
LEMMA OnceStep ==
    ASSUME TypeOK, Shape, Sane, TypeOK', Shape', ~Broken', NEW r \in Calls, StepOf(r)
    PROVE  Once'
BY OfStoredStep, FreshStep, MovedOnStep, RefusedStep, DistinctStep DEF Once

-----------------------------------------------------------------------------
(* The goal and the lead *)

LEMMA AgreedStep ==
    ASSUME TypeOK, Shape, Sane, TypeOK', Shape', ~Broken', NEW r \in Calls, StepOf(r)
    PROVE  Agreed'
<1>1. /\ Turns /\ Threads /\ Copies /\ Views /\ Agreed /\ Once
      /\ \A q \in Calls : q # r => call'[q] = call[q] /\ ~Running(q)'
  BY GrowsStep, Alone DEF Sane
<1>2. ASSUME NEW q \in Calls, call'[q].kind = "confirm", call'[q].pc = "store"
      PROVE  call'[q].about = call'[q].got.s.draft /\ call'[q].sid = newest'
  <2>1. q = r
    BY <1>1, <1>2 DEF Running
  <2>2. CASE ConfirmIs(r)
    <3>1. UpTo(page.view)
      BY <1>1, <2>2, ConfirmMeans
    <3> QED
      BY <2>1, <2>2, <3>1 DEF ConfirmIs, CallIs, UpTo, Reads
  <2>3. CASE ~ConfirmIs(r)
    <3>1. LoadRefusedIs(r) \/ LoadIs(r) \/ StoreReplyIs(r) => reply[r].pc # "none" /\ call' = call
      BY DEF LoadRefusedIs, LoadIs, StoreReplyIs
    <3>2. call'[r].kind = "confirm" /\ call'[r].pc = "store" =>
             call[r].kind = "confirm" /\ (reply[r].pc # "none" \/ call[r].pc = "send")
      BY <2>3, <3>1 DEF StepOf, SendIs, StoreAnswerIs, StoreTouchIs, StoreNewIs, RefreshIs, StoreConfirmIs, FailIs, LoadRefusedIs, LoadIs, StoreReplyIs,
   OpenIs, AnswerIs, ArriveShownIs, ArriveClosesIs, ArriveFailedIs, CallIs, Goes, Ended
    <3> QED
      BY <1>2, <2>1, <3>2 DEF Shape, CallShape, CallFits
  <2> QED
    BY <2>2, <2>3
<1>3. board'.goal # None => board'.goal = board'.lead
  <2>1. CASE StoreConfirmIs(r)
    BY <1>1, <2>1, StoreConfirmMeans
  <2>2. CASE ~StoreConfirmIs(r)
    <3>1. board' = board
      BY <2>2 DEF StepOf, SendIs, StoreAnswerIs, StoreTouchIs, StoreNewIs, RefreshIs, FailIs, LoadRefusedIs, LoadIs, StoreReplyIs,
   OpenIs, AnswerIs, ConfirmIs, ArriveShownIs, ArriveClosesIs, ArriveFailedIs
    <3> QED
      BY <1>1, <3>1 DEF Agreed
  <2> QED
    BY <2>1, <2>2
<1> QED
  BY <1>2, <1>3 DEF Agreed
-----------------------------------------------------------------------------
(* Closing, polling and taking a polled answer *)

\* The server and the agent do nothing.
LEMMA ServerStays ==
    ASSUME Sane, sess' = sess, newest' = newest, call' = call, reply' = reply, board' = board
    PROVE  /\ Threads' /\ Copies' /\ Agreed' /\ Out' = Out /\ SameNewest
           /\ OfStored' /\ Fresh' /\ MovedOn' /\ Distinct'
<1>1. Threads' = Threads /\ Out' = Out /\ SameNewest
  BY DEF Threads, AskedIn, Latest, Has, Active, Out, SameNewest
<1>2. \A r \in Calls : (AnswerCopy(r)' <=> AnswerCopy(r)) /\ (ReplyCopy(r)' <=> ReplyCopy(r)) /\ (StartCopy(r)' <=> StartCopy(r))
  BY DEF AnswerCopy, ReplyCopy, StartCopy, Latest, Has, Active
<1>3. Copies' <=> Copies
  BY <1>1, <1>2 DEF Copies, Latest
<1>4. Agreed' <=> Agreed
  BY DEF Agreed
<1>5. (OfStored' <=> OfStored) /\ (Fresh' <=> Fresh) /\ (MovedOn' <=> MovedOn) /\ (Distinct' <=> Distinct)
  BY DEF OfStored, Fresh, MovedOn, Distinct, Latest, Told
<1> QED
  BY <1>1, <1>3, <1>4, <1>5 DEF Sane, Once

\* Closing a dialog that is quiet.
LEMMA CloseSane ==
    ASSUME TypeOK, Shape, Sane, ~Broken', CloseIs
    PROVE  Sane'
<1>1. /\ page.cur = None /\ Out = {} /\ page' = Closed /\ gets' = {} /\ page'.open = FALSE /\ page'.cur = None
      /\ sess' = sess /\ newest' = newest /\ call' = call /\ reply' = reply /\ board' = board
  BY CloseMeans DEF CloseIs, Closed
<1>2. /\ Threads' /\ Copies' /\ Agreed' /\ Out' = Out /\ OfStored' /\ Fresh' /\ MovedOn' /\ Distinct'
  BY <1>1, ServerStays
<1>3. \A r \in Calls : ~Running(r)' /\ page'.cur # r /\ call'[r].pc \notin {"refresh", "answered"}
  BY <1>1, OnboardingAssumption DEF Sane, Turns, Running
<1>4. Turns'
  BY <1>1, <1>2, <1>3 DEF Sane, Turns, Told
<1>5. Views'
  BY <1>1, <1>3 DEF Views
<1>6. Refused'
  BY <1>1, <1>2 DEF Sane, Once, Refused, Latest
<1> QED
  BY <1>2, <1>4, <1>5, <1>6 DEF Sane, Once

\* A poll.
LEMMA PollSane ==
    ASSUME TypeOK, Shape, Sane, PollIs
    PROVE  Sane'
<1>1. /\ page.open /\ page' = page /\ rev' = rev /\ gets' = gets \cup {Reads(newest)}
      /\ sess' = sess /\ newest' = newest /\ call' = call /\ reply' = reply /\ board' = board
  BY DEF PollIs
<1>2. /\ Threads' /\ Copies' /\ Agreed' /\ Out' = Out /\ OfStored' /\ Fresh' /\ MovedOn' /\ Distinct' /\ SameNewest
  BY <1>1, ServerStays
<1>3. Turns'
  BY <1>1, <1>2 DEF Sane, Turns, Told, Running
<1>4. Refused'
  BY <1>1, <1>2 DEF Sane, Once, Refused, Latest
<1>5. Numbered /\ rev \in Nat /\ PageShape /\ Views
  BY DEF TypeOK, Reading, Numbered, Shape, Sane
<1>6. ASSUME NEW s, NEW n, NEW aw, Settled(s, n, aw)
      PROVE  Settled(s, n, aw)'
  BY <1>5, <1>6, SettledPoll
<1>7. UpTo(Reads(newest).s)
  BY DEF UpTo, Reads, Latest
<1>8. ASSUME page.open, \A r \in Calls : page.cur = r => ~Told(r)
      PROVE  Settled(page.view, page.n, page.awaiting)'
  <2>1. PICK s, n, aw : s = page.view /\ n = page.n /\ aw = page.awaiting
    OBVIOUS
  <2>2. Settled(s, n, aw)'
    BY <1>5, <1>6, <1>8, <2>1 DEF Views
  <2>3. page'.view = s /\ page'.n = n /\ page'.awaiting = aw
    BY <1>1, <2>1
  <2> QED
    BY <2>2, <2>3, SettledPage
<1>9. ASSUME NEW r \in Calls, page.cur = r, call[r].kind = "start", ~Told(r)
      PROVE  (\A g \in gets' : UpTo(g.s)') /\ (call'[r].pc = "answered" => UpTo(call[r].got.s)')
  <2>1. \A g \in gets' : UpTo(g.s)
    BY <1>1, <1>5, <1>7, <1>9 DEF Views
  <2>2. \A s : UpTo(s)' <=> UpTo(s)
    BY <1>2, UpToKeeps
  <2>3. call[r].pc = "answered" => UpTo(call[r].got.s)
    BY <1>5, <1>9 DEF Views
  <2> QED
    BY <1>1, <2>1, <2>2, <2>3 DEF UpTo, Latest
<1>10. ASSUME NEW r \in Calls, call[r].pc = "answered", Told(r)
       PROVE  Settled(call[r].got.s, call[r].got.n, Awaited(r))'
  <2>1. PICK s, n, aw : s = call[r].got.s /\ n = call[r].got.n /\ aw = Awaited(r)
    OBVIOUS
  <2>2. Settled(s, n, aw)'
    BY <1>5, <1>6, <1>10, <2>1 DEF Views
  <2>3. call'[r].got.s = s /\ call'[r].got.n = n /\ Awaited(r)' = aw
    BY <1>1, <2>1 DEF Awaited
  <2> QED
    BY <2>2, <2>3, SettledGot
<1>11. ASSUME NEW r \in Calls, call[r].pc = "refresh"
       PROVE  Refreshing(r)'
  BY <1>1, <1>2, <1>5, <1>11 DEF Views, Refreshing, Waits, Awaited
<1>12. Views'
  BY <1>1, <1>8, <1>9, <1>10, <1>11 DEF Views, Told
<1> QED
  BY <1>2, <1>3, <1>4, <1>12 DEF Sane, Once

\* Taking an answer that is not older.
LEMMA GetSane ==
    ASSUME TypeOK, Shape, Sane, ~Broken', NEW got \in gets, GetIs(got)
    PROVE  Sane'
<1> DEFINE st == Still(got.s, page.awaiting)
<1>1. /\ page.open /\ page'.open = page.open /\ page'.view = got.s /\ page'.n = got.n /\ page'.cur = page.cur
      /\ page'.awaiting = st /\ gets' \subseteq gets /\ page.n <= got.n
      /\ sess' = sess /\ newest' = newest /\ call' = call /\ reply' = reply /\ board' = board
  BY GetMeans DEF GetIs, ShownIs, PageIs
<1>2. /\ Threads' /\ Copies' /\ Agreed' /\ Out' = Out /\ OfStored' /\ Fresh' /\ MovedOn' /\ Distinct' /\ SameNewest
  BY <1>1, ServerStays
<1>3. Turns'
  BY <1>1, <1>2 DEF Sane, Turns, Told, Running
<1>4. Numbered /\ page.n \in Nat /\ got.n \in Nat /\ Views /\ Turns /\ Once /\ PageShape
  BY Types DEF TypeOK, Reading, Numbered, Shape, Sane
<1>5. ASSUME NEW s, NEW n, NEW aw, Settled(s, n, aw)
      PROVE  Settled(s, n, aw)'
  BY <1>1, <1>2, <1>5, SettledKeeps
<1>6. \A s : UpTo(s)' <=> UpTo(s)
  BY <1>2, UpToKeeps
<1>7. ASSUME \A r \in Calls : page.cur = r => ~Told(r)
      PROVE  Settled(got.s, got.n, page.awaiting)
  <2>1. Settled(page.view, page.n, page.awaiting)
    BY <1>1, <1>4, <1>7 DEF Views
  <2> QED
    BY <1>1, <1>4, <2>1, SettledShown
<1>8. ASSUME \A r \in Calls : page.cur = r => ~Told(r)
      PROVE  Settled(page.view, page.n, page.awaiting)'
  <2>1. PICK s, n, aw : s = got.s /\ n = got.n /\ aw = st
    OBVIOUS
  <2>2. Settled(s, n, aw)
    BY <1>4, <1>7, <1>8, <2>1, SettledStill
  <2>3. page'.view = s /\ page'.n = n /\ page'.awaiting = aw
    BY <1>1, <2>1
  <2> QED
    BY <1>5, <2>2, <2>3, SettledPage
\* A request that is not a confirmation has begun the wait itself.
<1>9. ASSUME NEW r \in Calls, Running(r), call[r].kind # "confirm"
      PROVE  Awaited(r)' = Awaited(r)
  <2>1. page.awaiting = None
    BY <1>4, <1>9 DEF Turns, PageShape
  <2>2. st = None
    BY <2>1 DEF Still
  <2> QED
    BY <1>1, <2>1, <2>2 DEF Awaited
<1>10. ASSUME NEW r \in Calls, page.cur = r, call[r].kind = "start", ~Told(r)
       PROVE  (\A g \in gets' : UpTo(g.s)') /\ (call'[r].pc = "answered" => UpTo(call[r].got.s)')
  <2>1. \A g \in gets' : UpTo(g.s)
    BY <1>1, <1>4, <1>10 DEF Views
  <2>2. call[r].pc = "answered" => UpTo(call[r].got.s)
    BY <1>4, <1>10 DEF Views
  <2> QED
    BY <1>1, <1>6, <2>1, <2>2 DEF UpTo, Latest
<1>11. ASSUME NEW r \in Calls, call[r].pc = "answered", Told(r)
       PROVE  Settled(call[r].got.s, call[r].got.n, Awaited(r))'
  <2>1. PICK s, n, aw : s = call[r].got.s /\ n = call[r].got.n /\ aw = Awaited(r)
    OBVIOUS
  <2>2. Settled(s, n, aw)'
    BY <1>4, <1>5, <1>11, <2>1 DEF Views
  <2>3. call[r].kind # "confirm" /\ Running(r)
    BY <1>11 DEF Shape, CallShape, CallFits, Told, Running
  <2>4. call'[r].got.s = s /\ call'[r].got.n = n /\ Awaited(r)' = aw
    BY <1>1, <1>9, <2>1, <2>3
  <2> QED
    BY <2>2, <2>4, SettledGot
<1>12. ASSUME NEW r \in Calls, call[r].pc = "refresh"
       PROVE  Refreshing(r)'
  <2>1. call[r].kind # "confirm" /\ Running(r)
    BY <1>12 DEF Shape, CallShape, CallFits, Running
  <2>2. Awaited(r)' = Awaited(r)
    BY <1>9, <2>1
  <2> QED
    BY <1>1, <1>2, <1>4, <1>12, <2>2 DEF Views, Refreshing, Waits
<1>13. Views'
  BY <1>1, <1>8, <1>10, <1>11, <1>12 DEF Views, Told
<1>14. Refused'
  <2> SUFFICES ASSUME NEW q \in Calls, call[q].kind = "answer", reply[q].pc = "refused", page.cur = None, page.awaiting = call[q].about
               PROVE  st = call[q].about
    BY <1>1, <1>2, <1>4 DEF Once, Refused, Latest
  <2>1. Latest(newest) = call[q].about
    BY <1>4 DEF Once, Refused
  <2>2. Settled(got.s, got.n, page.awaiting)
    BY <1>7, OnboardingAssumption
  <2>3. LastAgent(got.s.msgs) = call[q].about
    BY <2>1, <2>2 DEF Settled, Sound, Waits, UpTo
  <2> QED
    BY <2>3 DEF Still
<1> QED
  BY <1>2, <1>3, <1>13, <1>14 DEF Sane, Once

\* A stutter.
LEMMA StaysSane ==
    ASSUME Sane, StaysIs
    PROVE  Sane'
<1>1. /\ sess' = sess /\ newest' = newest /\ call' = call /\ reply' = reply /\ board' = board /\ page' = page /\ gets' = gets
  BY DEF StaysIs
<1>2. /\ Threads' /\ Copies' /\ Agreed' /\ Out' = Out /\ OfStored' /\ Fresh' /\ MovedOn' /\ Distinct' /\ SameNewest
  BY <1>1, ServerStays
<1>3. Turns'
  BY <1>1, <1>2 DEF Sane, Turns, Told, Running
<1>4. Refused'
  BY <1>1, <1>2 DEF Sane, Once, Refused, Latest
<1>5. Views'
  BY <1>1, <1>2 DEF Sane, Views, Settled, Sound, Waits, UpTo, Refreshing, Awaited, Told, Latest
<1> QED
  BY <1>2, <1>3, <1>4, <1>5 DEF Sane, Once
-----------------------------------------------------------------------------
(* The safety properties *)

IInv == TypeOK /\ Shape /\ (~Broken => Sane)

\* No dialog is open at first.
LEMMA SaneInit == ASSUME Init PROVE Sane
<1>1. /\ \A i \in Calls : sess[i].status = "none" /\ sess[i].msgs = <<>> /\ sess[i].draft = None
      /\ \A r \in Calls : call[r].kind = "start" /\ call[r].pc = "new" /\ reply[r].pc = "none"
      /\ board.goal = None /\ page.open = FALSE /\ page.cur = None /\ gets = {}
  BY DEF Init, NoSession, NewCall, NoReply, Closed
<1>2. /\ Out = {} /\ Active = {} /\ \A r \in Calls : ~Running(r) /\ page.cur # r
      /\ \A i \in Calls : Latest(i) = None /\ Has(i) = {}
  BY <1>1, NoMessages, OnboardingAssumption DEF Out, Active, Running, Latest, Has
<1>3. Turns
  BY <1>1, <1>2 DEF Turns
<1>4. Threads
  BY <1>1, <1>2 DEF Threads, AskedIn
<1>5. Copies
  BY <1>1, <1>2 DEF Copies
<1>6. Views
  BY <1>1, <1>2 DEF Views
<1>7. Once
  BY <1>1 DEF Once, OfStored, Fresh, MovedOn, Refused, Distinct
<1>8. Agreed
  BY <1>1 DEF Agreed
<1> QED
  BY <1>3, <1>4, <1>5, <1>6, <1>7, <1>8 DEF Sane

\* Every step that does not break the dialog keeps the invariant.
LEMMA SaneStep == ASSUME TypeOK, Shape, Sane, [Next]_vars, ~Broken' PROVE Sane'
<1>1. TypeOK' /\ Shape'
  BY ShapeStep
<1>2. ASSUME NEW r \in Calls, StepOf(r) PROVE Sane'
  BY <1>1, <1>2, TurnsStep, ThreadsStep, CopiesStep, ViewsStep, OnceStep, AgreedStep DEF Sane
<1>3. ASSUME NEW r \in Calls, SpeakIs(r) PROVE Sane'
  BY <1>3 DEF SpeakIs, Broken
<1> QED
  BY <1>2, <1>3, NextIs, StaysSane, CloseSane, PollSane, GetSane

\* The inductive invariant.
LEMMA IInvHolds == Spec => []IInv
<1>1. Init => IInv
  BY ShapeInit, SaneInit DEF IInv
<1>2. IInv /\ [Next]_vars => IInv'
  BY ShapeStep, SaneStep, BrokenStays DEF IInv
<1> QED
  BY <1>1, <1>2, PTL DEF Spec

\* A reply that is in a session has not been lost.
LEMMA SmoothIs == ASSUME TypeOK, Smooth, ~unasked PROVE ~Broken
<1>1. ~rough
  BY DEF Smooth
<1>2. ASSUME NEW x \in Calls, reply[x].pc = "ok" PROVE Kept(x)
  <2>1. PICK i \in Calls : By("agent", x) \in ToSet(sess[i].msgs)
    BY <1>2 DEF Smooth, Overwritten
  <2>2. x \in Replies(sess[i].msgs)
    BY <2>1 DEF ToSet, Replies
  <2> QED
    BY <2>2 DEF Kept
<1> QED
  BY <1>1, <1>2 DEF Broken

\* In a dialog that did not go rough, lost no reply and got no update nobody asked for,
\* the agent is told one answer to each of its messages: answer_onboarding hands every
\* answer to the gateway, and only the page's waiting keeps the user from sending a
\* second one.
THEOREM AnsweredOnceHolds == Spec => [](~unasked => AnsweredOnce)
<1>1. IInv => (~unasked => AnsweredOnce)
  <2> SUFFICES ASSUME IInv, Smooth, ~unasked PROVE Distinct
    BY DEF AnsweredOnce, Distinct, Told
  <2> QED
    BY SmoothIs DEF IInv, Sane, Once
<1> QED
  BY <1>1, IInvHolds, PTL

\* In such a dialog the goal that confirm_onboarding stores, which the page sent, and the
\* lead it provisions, which the session's draft describes, are of the same draft.
THEOREM ConfirmedAsShownHolds == Spec => []ConfirmedAsShown
<1>1. IInv => ConfirmedAsShown
  BY SmoothIs DEF IInv, Sane, Agreed, ConfirmedAsShown
<1> QED
  BY <1>1, IInvHolds, PTL
==============================================================================
