--------------------------- MODULE FirewallProofs ---------------------------
(***************************************************************************)
(* Proofs about FirewallBlocks, for every set of requests and addresses    *)
(* and every bound on failures.                                            *)
(***************************************************************************)
EXTENDS FirewallBlocks, TLAPS

\* What a Mac needs of its clients, and the other systems do not: one request
\* at a time, and the spelling of the table when a block is lifted.
Disciplined == "Darwin" \in Platform => Patient /\ Spelled \subseteq Canonical

\* The table as the request wants it.
After(r) == IF req[r].op = "block" THEN rows \cup {Subject(r)} ELSE rows \ {Subject(r)}

(***************************************************************************)
(* The inductive invariant.                                                *)
(***************************************************************************)

\* Requests in progress at once are for different addresses.
Distinct ==
  \A r, q \in Request :
    r # q /\ InProgress(r) /\ InProgress(q) => Subject(r) # Subject(q) /\ platform # "Darwin"

\* On a Mac the list at the prompt is the table with the change made.
ListIsCurrent ==
  platform = "Darwin" =>
    \A r \in Request : InProgress(r) => {Canon[a] : a \in req[r].desired} = After(r)

\* What a command enforced is in force until the table is written.
DoneIsInForce ==
  \A r \in Request : req[r].pc = "record" /\ ~req[r].crossed =>
    /\ Subject(r) \in rules <=> req[r].op = "block"
    /\ platform = "Darwin" => rules = After(r)

\* Before any failure, nothing was given up, and the two places agree on
\* every address that no command has been run for.
CalmAgrees ==
  faults = MaxFaults =>
    /\ \A r \in Request : req[r].pc # "late" /\ ~req[r].crossed
    /\ \A a \in Canonical :
         (\A r \in Request : req[r].pc = "record" => Subject(r) # a)
           => (a \in rows <=> a \in rules)

IInv == TypeOK /\ Distinct /\ ListIsCurrent /\ DoneIsInForce /\ CalmAgrees

(***************************************************************************)
(* Lemmas.                                                                 *)
(***************************************************************************)

LEMMA CanonFacts ==
  /\ \A a \in Address : Canon[a] \in Canonical
  /\ \A a \in Canonical : a \in Address /\ Canon[a] = a
BY CanonAssumption DEF Canonical

LEMMA SubjectIsCanonical ==
  ASSUME TypeOK, NEW r \in Request, req[r].pc # "idle"
  PROVE  Subject(r) \in Canonical
BY CanonFacts DEF TypeOK, Subject

LEMMA IdleType == Idle \in ReqState /\ Idle.pc = "idle" /\ ~Idle.crossed
BY DEF Idle, ReqState

\* The image of a list of spellings is a set of canonical ones.
LEMMA EnforcedType ==
  ASSUME TypeOK, NEW r \in Request, req[r].pc # "idle"
  PROVE  Enforced(r) \in SUBSET Canonical
<1>1. req[r].desired \in SUBSET Address
  BY DEF TypeOK, ReqState
<1>2. {Canon[a] : a \in req[r].desired} \in SUBSET Canonical
  BY <1>1, CanonFacts
<1> QED BY <1>2, SubjectIsCanonical DEF Enforced, TypeOK

LEMMA TypeInvariant ==
  TypeOK /\ [Next]_vars => TypeOK'
<1> SUFFICES ASSUME TypeOK, [Next]_vars PROVE TypeOK'
  OBVIOUS
<1>0. rows \in SUBSET Address
  BY CanonFacts DEF TypeOK
<1>1. ASSUME NEW r \in Request, NEW op \in {"block", "unblock"}, NEW a \in Address,
             Ask(r, op, a)
      PROVE  TypeOK'
  <2>1. Desired(op, a) \in SUBSET Address
    BY <1>0 DEF Desired
  <2>2. [pc |-> "prompt", op |-> op, subject |-> a, desired |-> Desired(op, a),
         crossed |-> FALSE] \in ReqState
    BY <2>1 DEF ReqState
  <2> QED BY <1>1, <2>2 DEF Ask, TypeOK
<1>2. ASSUME NEW r \in Request, Consent(r) PROVE TypeOK'
  <2>1. rules' \in SUBSET Canonical
    BY <1>2, EnforcedType DEF Consent
  <2> QED BY <1>2, <2>1 DEF Consent, TypeOK, ReqState
<1>3. ASSUME NEW r \in Request, Decline(r) PROVE TypeOK'
  BY <1>3, IdleType DEF Decline, TypeOK
<1>4. ASSUME NEW r \in Request, Record(r) PROVE TypeOK'
  <2>1. rows' \in SUBSET Canonical
    BY <1>4, SubjectIsCanonical DEF Record, Recorded, TypeOK
  <2> QED BY <1>4, <2>1, IdleType DEF Record, TypeOK
<1>5. ASSUME NEW r \in Request, TimeOut(r) PROVE TypeOK'
  BY <1>5, BoundsAssumption DEF TimeOut, Fault, GivenUp, TypeOK, ReqState
<1>6. ASSUME NEW r \in Request, LateCommand(r) PROVE TypeOK'
  <2>1. rules' \in SUBSET Canonical
    BY <1>6, EnforcedType DEF LateCommand, TypeOK
  <2>2. req' \in [Request -> ReqState]
    <3>1. \A q \in Request : req[q] \in ReqState /\ [req[q] EXCEPT !.crossed = TRUE] \in ReqState
      BY DEF TypeOK, ReqState
    <3>2. \A q \in Request : req'[q] \in ReqState
      BY <1>6, <3>1, IdleType DEF LateCommand, TypeOK
    <3>3. req' = [q \in Request |-> req'[q]]
      BY <1>6 DEF LateCommand, TypeOK
    <3> QED BY <3>2, <3>3
  <2>3. \A q \in Request : req'[q].pc # "idle" => req'[q].subject \in Address /\ req'[q].op # "none"
    BY <1>6, IdleType DEF LateCommand, TypeOK, ReqState
  <2> QED BY <1>6, <2>1, <2>2, <2>3 DEF LateCommand, TypeOK
<1>7. ASSUME NEW r \in Request, WriteFails(r) PROVE TypeOK'
  BY <1>7, IdleType, BoundsAssumption DEF WriteFails, Fault, TypeOK
<1>8. CASE Crash
  <2>1. req' \in [Request -> ReqState]
    BY <1>8, IdleType DEF Crash, TypeOK, ReqState
  <2> QED BY <1>8, <2>1, IdleType, BoundsAssumption DEF Crash, Fault, TypeOK, ReqState
<1>9. CASE Reboot
  BY <1>9, IdleType, BoundsAssumption DEF Reboot, Fault, TypeOK
<1>10. CASE UNCHANGED vars
  BY <1>10 DEF vars, TypeOK
<1> QED
  BY <1>1, <1>2, <1>3, <1>4, <1>5, <1>6, <1>7, <1>8, <1>9, <1>10, SpelledAssumption
  DEF Next, Handler, Failure, AskBlock, AskUnblock

\* The types hold in every reachable state, whoever asks for what.
THEOREM FirewallTypes == Spec => []TypeOK
<1>1. Init => TypeOK
  BY IdleType, BoundsAssumption DEF Init, TypeOK, Idle
<1>2. TypeOK /\ [Next]_vars => TypeOK'
  BY TypeInvariant
<1> QED BY <1>1, <1>2, PTL DEF Spec
(***************************************************************************)
(* The invariant is inductive when the clients are disciplined.            *)
(***************************************************************************)

\* A new request reads the table now, and is busy with an address of its own.
LEMMA AskKeeps ==
  ASSUME Disciplined, IInv, TypeOK', NEW r \in Request, NEW op \in {"block", "unblock"},
         NEW a \in Address, op = "unblock" => a \in Spelled, Ask(r, op, a)
  PROVE  IInv'
<1> DEFINE new == [pc |-> "prompt", op |-> op, subject |-> a, desired |-> Desired(op, a),
                   crossed |-> FALSE]
<1>1. req' = [req EXCEPT ![r] = new] /\ UNCHANGED <<platform, rows, rules, faults>>
  BY DEF Ask
<1>2. \A q \in Request : q # r => req'[q] = req[q]
  BY <1>1 DEF IInv, TypeOK
<1>3. req'[r] = new /\ req[r].pc = "idle"
  BY <1>1 DEF IInv, TypeOK, Ask
<1>4. Distinct'
  <2>1. \A q \in Request : InProgress(q) => Subject(q) # Canon[a] /\ platform # "Darwin"
    BY DEF Ask, MayBegin, Disciplined, IInv, TypeOK
  <2>2. Subject(r)' = Canon[a] /\ platform' = platform
    BY <1>1, <1>3 DEF Subject
  <2>3. \A q \in Request : q # r => Subject(q)' = Subject(q) /\ (InProgress(q)' <=> InProgress(q))
    BY <1>2 DEF Subject, InProgress
  <2> QED BY <1>1, <2>1, <2>2, <2>3 DEF Distinct, IInv
<1>5. ListIsCurrent'
  <2> SUFFICES ASSUME platform = "Darwin", NEW q \in Request, InProgress(q)'
               PROVE  ({Canon[x] : x \in req[q].desired} = After(q))'
    BY <1>1 DEF ListIsCurrent
  <2>1. CASE q # r
    BY <1>1, <1>2, <2>1 DEF ListIsCurrent, IInv, InProgress, After, Subject
  <2>2. CASE q = r
    <3>1. rows \subseteq Canonical /\ \A x \in rows : Canon[x] = x
      BY CanonFacts DEF IInv, TypeOK
    <3>2. op = "unblock" => a \in Canonical
      BY DEF Disciplined, IInv, TypeOK
    <3>3. {Canon[x] : x \in Desired(op, a)}
            = IF op = "block" THEN rows \cup {Canon[a]} ELSE rows \ {Canon[a]}
      BY <3>1, <3>2, CanonFacts DEF Desired
    <3> QED BY <1>1, <1>3, <2>2, <3>3 DEF After, Subject
  <2> QED BY <2>1, <2>2
<1>6. DoneIsInForce'
  BY <1>1, <1>2, <1>3 DEF DoneIsInForce, IInv, After, Subject
<1>7. CalmAgrees'
  <2>1. \A q \in Request : (req[q].pc = "record") <=> (req'[q].pc = "record")
    BY <1>2, <1>3
  <2>2. \A q \in Request : req[q].pc = "record" => Subject(q)' = Subject(q)
    BY <1>2, <1>3 DEF Subject
  <2>3. \A q \in Request : (req[q].pc # "late" /\ ~req[q].crossed) =>
                           (req'[q].pc # "late" /\ ~req'[q].crossed)
    BY <1>2, <1>3
  <2> QED BY <1>1, <2>1, <2>2, <2>3 DEF CalmAgrees, IInv
<1> QED BY <1>4, <1>5, <1>6, <1>7 DEF IInv

\* The command of a request changes its own address, or on a Mac all of them
\* to what the table is about to say.
LEMMA ConsentKeeps ==
  ASSUME Disciplined, IInv, TypeOK', NEW r \in Request, Consent(r)
  PROVE  IInv'
<1>1. /\ req' = [req EXCEPT ![r].pc = "record"] /\ req[r].pc = "prompt"
      /\ UNCHANGED <<platform, rows, faults>> /\ rules' = Enforced(r)
  BY DEF Consent
<1>2. \A q \in Request : q # r => req'[q] = req[q]
  BY <1>1 DEF IInv, TypeOK
<1>3. /\ req'[r].pc = "record" /\ req'[r].op = req[r].op /\ req'[r].subject = req[r].subject
      /\ req'[r].desired = req[r].desired /\ req'[r].crossed = req[r].crossed
      /\ req[r].op \in {"block", "unblock"}
  BY <1>1 DEF IInv, TypeOK, ReqState
<1>4. \A q \in Request : /\ Subject(q)' = Subject(q) /\ (InProgress(q)' <=> InProgress(q))
                         /\ After(q)' = After(q)
  BY <1>1, <1>2, <1>3 DEF Subject, InProgress, After
<1>5. Distinct' /\ ListIsCurrent'
  BY <1>1, <1>2, <1>3, <1>4 DEF Distinct, ListIsCurrent, IInv
<1>6. platform = "Darwin" => rules' = After(r)
  BY <1>1 DEF Enforced, ListIsCurrent, IInv, InProgress
<1>7. Subject(r) \in rules' <=> req[r].op = "block"
  BY <1>1, <1>3, <1>6 DEF Enforced, After
<1>8. \A q \in Request : q # r /\ req[q].pc = "record" =>
        platform # "Darwin" /\ (Subject(q) \in rules' <=> Subject(q) \in rules)
  BY <1>1 DEF Distinct, IInv, InProgress, Enforced
<1>9. DoneIsInForce'
  BY <1>1, <1>2, <1>3, <1>4, <1>6, <1>7, <1>8 DEF DoneIsInForce, IInv
<1>10. CalmAgrees'
  <2> SUFFICES ASSUME faults = MaxFaults
               PROVE  /\ \A q \in Request : req'[q].pc # "late" /\ ~req'[q].crossed
                      /\ \A a \in Canonical :
                           (\A q \in Request : req'[q].pc = "record" => Subject(q) # a)
                             => (a \in rows <=> a \in rules')
    BY <1>1, <1>4 DEF CalmAgrees
  <2>1. \A q \in Request : req'[q].pc # "late" /\ ~req'[q].crossed
    BY <1>2, <1>3 DEF CalmAgrees, IInv
  <2>2. ASSUME NEW a \in Canonical,
               \A q \in Request : req'[q].pc = "record" => Subject(q) # a
        PROVE  a \in rows <=> a \in rules'
    <3>1. a # Subject(r)
      BY <1>3, <2>2
    <3>2. a \in rows <=> a \in rules
      BY <1>1, <1>2, <2>2 DEF CalmAgrees, IInv
    <3> QED BY <1>1, <1>6, <3>1, <3>2 DEF Enforced, After
  <2> QED BY <2>1, <2>2
<1> QED BY <1>5, <1>9, <1>10 DEF IInv

\* The write closes the request: the address agrees again.
LEMMA RecordKeeps ==
  ASSUME Disciplined, IInv, TypeOK', NEW r \in Request, Record(r)
  PROVE  IInv'
<1>1. /\ req' = [req EXCEPT ![r] = Idle] /\ req[r].pc = "record"
      /\ UNCHANGED <<platform, rules, faults>> /\ rows' = After(r)
  BY DEF Record, Recorded, After
<1>2. \A q \in Request : q # r => req'[q] = req[q]
  BY <1>1 DEF IInv, TypeOK
<1>3. req'[r] = Idle
  BY <1>1 DEF IInv, TypeOK
<1>4. \A q \in Request : q # r => Subject(q)' = Subject(q) /\ (InProgress(q)' <=> InProgress(q))
  BY <1>2 DEF Subject, InProgress
<1>5. ~InProgress(r)'
  BY <1>3, IdleType DEF InProgress
<1>6. \A q \in Request : q # r /\ InProgress(q) => platform # "Darwin"
  BY <1>1 DEF Distinct, IInv, InProgress
<1>7. Distinct' /\ ListIsCurrent' /\ DoneIsInForce'
  <2>1. Distinct'
    BY <1>1, <1>4, <1>5 DEF Distinct, IInv
  <2>2. ListIsCurrent'
    BY <1>1, <1>4, <1>5, <1>6 DEF ListIsCurrent
  <2>3. DoneIsInForce'
    BY <1>1, <1>2, <1>3, <1>4, <1>6, IdleType DEF DoneIsInForce, IInv, InProgress
  <2> QED BY <2>1, <2>2, <2>3
<1>8. CalmAgrees'
  <2> SUFFICES ASSUME faults = MaxFaults
               PROVE  /\ \A q \in Request : req'[q].pc # "late" /\ ~req'[q].crossed
                      /\ \A a \in Canonical :
                           (\A q \in Request : req'[q].pc = "record" => Subject(q)' # a)
                             => (a \in rows' <=> a \in rules)
    BY <1>1 DEF CalmAgrees
  <2>1. \A q \in Request : req'[q].pc # "late" /\ ~req'[q].crossed
    BY <1>2, <1>3, IdleType DEF CalmAgrees, IInv
  <2>2. ASSUME NEW a \in Canonical,
               \A q \in Request : req'[q].pc = "record" => Subject(q)' # a
        PROVE  a \in rows' <=> a \in rules
    <3>1. CASE a = Subject(r)
      <4>1. Subject(r) \in rules <=> req[r].op = "block"
        BY <1>1 DEF CalmAgrees, DoneIsInForce, IInv
      <4> QED BY <1>1, <3>1, <4>1 DEF After
    <3>2. CASE a # Subject(r)
      <4>1. \A q \in Request : req[q].pc = "record" => Subject(q) # a
        BY <1>2, <1>4, <2>2, <3>2
      <4>2. a \in rows <=> a \in rules
        BY <4>1 DEF CalmAgrees, IInv
      <4> QED BY <1>1, <3>2, <4>2 DEF After
    <3> QED BY <3>1, <3>2
  <2> QED BY <2>1, <2>2
<1> QED BY <1>7, <1>8 DEF IInv

\* A request that ends at its prompt leaves everything as it was.
LEMMA DeclineKeeps ==
  ASSUME Disciplined, IInv, TypeOK', NEW r \in Request, Decline(r)
  PROVE  IInv'
<1>1. /\ req' = [req EXCEPT ![r] = Idle] /\ req[r].pc = "prompt"
      /\ UNCHANGED <<platform, rows, rules, faults>>
  BY DEF Decline
<1>2. \A q \in Request : q # r => req'[q] = req[q]
  BY <1>1 DEF IInv, TypeOK
<1>3. req'[r] = Idle
  BY <1>1 DEF IInv, TypeOK
<1>4. \A q \in Request : q # r => /\ Subject(q)' = Subject(q) /\ (InProgress(q)' <=> InProgress(q))
                                  /\ After(q)' = After(q)
  BY <1>1, <1>2 DEF Subject, InProgress, After
<1>5. ~InProgress(r)'
  BY <1>3, IdleType DEF InProgress
<1>6. Distinct' /\ ListIsCurrent'
  BY <1>1, <1>2, <1>4, <1>5 DEF Distinct, ListIsCurrent, IInv
<1>7. DoneIsInForce'
  BY <1>1, <1>2, <1>3, <1>4, IdleType DEF DoneIsInForce, IInv
<1>8. CalmAgrees'
  BY <1>1, <1>2, <1>3, <1>4, IdleType DEF CalmAgrees, IInv
<1> QED BY <1>6, <1>7, <1>8 DEF IInv

\* What a failure leaves of the requests: nothing new is in progress, what is
\* in progress is as it was, and what is ready to be written was not crossed.
Thinned ==
  \A q \in Request :
    InProgress(q)' => /\ InProgress(q) /\ req'[q].op = req[q].op
                      /\ req'[q].subject = req[q].subject /\ req'[q].desired = req[q].desired
                      /\ req'[q].pc = req[q].pc
                      /\ req[q].crossed => req'[q].crossed

\* After a failure the calm part of the invariant says nothing any more.
LEMMA FailureKeeps ==
  ASSUME IInv, TypeOK', Thinned, UNCHANGED <<platform, rows>>, faults' # MaxFaults,
         rules' = rules \/ \A q \in Request : req'[q].pc = "record" => req'[q].crossed
  PROVE  IInv'
<1>1. \A q \in Request : InProgress(q)' => Subject(q)' = Subject(q) /\ After(q)' = After(q)
  BY DEF Thinned, Subject, After
<1>2. Distinct'
  BY <1>1 DEF Distinct, Thinned, IInv
<1>3. ListIsCurrent'
  BY <1>1 DEF ListIsCurrent, Thinned, IInv
<1>4. DoneIsInForce'
  BY <1>1 DEF DoneIsInForce, Thinned, IInv, InProgress
<1>5. CalmAgrees'
  BY DEF CalmAgrees
<1> QED BY <1>2, <1>3, <1>4, <1>5 DEF IInv

LEMMA FaultIsCounted ==
  ASSUME TypeOK, Fault
  PROVE  faults' # MaxFaults
BY BoundsAssumption DEF TypeOK, Fault

LEMMA Inductive ==
  ASSUME Disciplined, IInv, [Next]_vars
  PROVE  IInv'
<1>1. TypeOK'
  BY TypeInvariant DEF IInv
<1>2. ASSUME NEW r \in Request, Handler(r) PROVE IInv'
  BY <1>1, <1>2, AskKeeps, ConsentKeeps, DeclineKeeps, RecordKeeps, SpelledAssumption
  DEF Handler, AskBlock, AskUnblock
<1>3. ASSUME NEW r \in Request, TimeOut(r) PROVE IInv'
  <2>1. Thinned
    BY <1>3 DEF TimeOut, Thinned, InProgress, IInv, TypeOK, GivenUp
  <2> QED BY <1>1, <1>3, <2>1, FailureKeeps, FaultIsCounted DEF TimeOut, IInv
<1>4. ASSUME NEW r \in Request, LateCommand(r) PROVE IInv'
  <2>1. faults # MaxFaults /\ faults' = faults
    BY <1>4 DEF LateCommand, CalmAgrees, IInv
  <2>2. Thinned
    BY <1>4, IdleType DEF LateCommand, Thinned, InProgress, IInv, TypeOK, ReqState
  <2>3. rules' = rules \/ \A q \in Request : req'[q].pc = "record" => req'[q].crossed
    BY <1>4, IdleType DEF LateCommand, IInv, TypeOK, ReqState
  <2> QED BY <1>1, <1>4, <2>1, <2>2, <2>3, FailureKeeps DEF LateCommand
<1>5. ASSUME NEW r \in Request, WriteFails(r) PROVE IInv'
  <2>1. Thinned
    BY <1>5, IdleType DEF WriteFails, Thinned, InProgress, IInv, TypeOK
  <2> QED BY <1>1, <1>5, <2>1, FailureKeeps, FaultIsCounted DEF WriteFails, IInv
<1>6. CASE Crash
  <2>1. Thinned
    BY <1>6, IdleType DEF Crash, Thinned, InProgress, IInv, TypeOK
  <2> QED BY <1>1, <1>6, <2>1, FailureKeeps, FaultIsCounted DEF Crash, IInv
<1>7. CASE Reboot
  <2>1. Thinned /\ \A q \in Request : req'[q].pc # "record"
    BY <1>7, IdleType DEF Reboot, Thinned, InProgress
  <2> QED BY <1>1, <1>7, <2>1, FailureKeeps, FaultIsCounted DEF Reboot, IInv
<1>8. CASE UNCHANGED vars
  BY <1>8 DEF vars, IInv, TypeOK, Distinct, ListIsCurrent, DoneIsInForce, CalmAgrees,
     InProgress, Subject, After
<1> QED
  BY <1>2, <1>3, <1>4, <1>5, <1>6, <1>7, <1>8 DEF Next, Failure

LEMMA Initial == Init => IInv
<1> SUFFICES ASSUME Init PROVE IInv
  OBVIOUS
<1>1. TypeOK
  BY IdleType, BoundsAssumption DEF Init, TypeOK, Idle
<1>2. \A r \in Request : req[r] = Idle
  BY DEF Init
<1> QED
  BY <1>1, <1>2, IdleType
  DEF IInv, Init, Distinct, ListIsCurrent, DoneIsInForce, CalmAgrees, InProgress

\* With disciplined clients the panel's list and the operating system agree
\* on every address at rest, as long as nothing fails.
THEOREM TableAgrees ==
  ASSUME Disciplined
  PROVE  Spec => []Agreement
<1>1. Init => IInv
  BY Initial
<1>2. IInv /\ [Next]_vars => IInv'
  BY Inductive
<1>3. IInv => Agreement
  BY DEF IInv, CalmAgrees, Agreement, InProgress
<1> QED BY <1>1, <1>2, <1>3, PTL DEF Spec

\* With disciplined clients a success repairs what earlier failures spoilt.
THEOREM SuccessAgrees ==
  ASSUME Disciplined
  PROVE  Spec => SuccessRepairs
<1> DEFINE Repairs ==
      \A r \in Request :
        req[r].pc = "record" /\ ~req[r].crossed /\ req'[r].pc = "idle" /\ faults' = faults
          => /\ Subject(r) \in rows' <=> Subject(r) \in rules'
             /\ platform = "Darwin" /\ Patient => rows' = rules'
<1>1. Init => IInv
  BY Initial
<1>2. IInv /\ [Next]_vars => IInv'
  BY Inductive
<1>3. IInv /\ [Next]_vars => [Repairs]_vars
  <2> SUFFICES ASSUME IInv, Next, NEW r \in Request,
                      req[r].pc = "record", ~req[r].crossed, req'[r].pc = "idle",
                      faults' = faults
               PROVE  /\ Subject(r) \in rows' <=> Subject(r) \in rules'
                      /\ platform = "Darwin" => rows' = rules'
    OBVIOUS
  <2>1. Record(r)
    <3>1. ~Fault
      BY DEF Fault, IInv, TypeOK
    <3>2. PICK q \in Request : Handler(q) \/ LateCommand(q)
      BY <3>1 DEF Next, Failure, TimeOut, WriteFails, Crash, Reboot
    <3>3. CASE q # r
      <4>1. req'[r].pc = req[r].pc
        BY <3>2, <3>3 DEF Handler, AskBlock, AskUnblock, Ask, Consent, Decline, Record,
                          LateCommand, IInv, TypeOK, ReqState
      <4> QED BY <4>1
    <3>4. CASE q = r
      BY <3>2, <3>4 DEF Handler, AskBlock, AskUnblock, Ask, Consent, Decline, LateCommand
    <3> QED BY <3>3, <3>4
  <2>2. rows' = After(r) /\ rules' = rules
    BY <2>1 DEF Record, Recorded, After
  <2>3. Subject(r) \in rules <=> req[r].op = "block"
    BY DEF DoneIsInForce, IInv
  <2>4. platform = "Darwin" => rules = After(r)
    BY DEF DoneIsInForce, IInv
  <2> QED BY <2>2, <2>3, <2>4 DEF After
<1> QED BY <1>1, <1>2, <1>3, PTL DEF Spec, SuccessRepairs
=============================================================================
