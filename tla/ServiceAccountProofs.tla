------------------------ MODULE ServiceAccountProofs ------------------------
(***************************************************************************)
(* TokenIsAdmin, LegacyGone and RetryTolerant for any number of callers    *)
(* and faults and every driver.                                            *)
(***************************************************************************)
EXTENDS ServiceAccount, TLAPS

PcType ==
  /\ pc \in [Callers -> Steps \cup {"idle"}]
  /\ op \in [Callers -> {"postCheck", "removeLegacy"}]
  /\ answer \in [Callers -> {"none", "token", "ok"} \cup Errors]

\* the labels of GenerateServiceAccountToken and of the removal
Generating == {"version", "namespace", "account", "getRole", "role", "binding", "poll"}
Removing   == {"getAccount", "legacyAccount", "getBinding", "legacyBinding"}

\* what is in the cluster when some caller is at the label, whoever made it
Built(l) ==
  CASE l = "account" -> {"namespace"}
    [] l \in {"getRole", "role"} -> {"namespace", "account"}
    [] l = "binding" -> {"namespace", "account", "role"}
    [] l = "poll" -> New
    [] OTHER -> {}

\* TokenIsAdmin and LegacyGone for one caller, with what its label says of the
\* cluster before the call returns
CallerInv(c) ==
  /\ Built(pc[c]) \subseteq objects
  /\ pc[c] \in Generating => op[c] = "postCheck"
  /\ pc[c] \in Removing => op[c] = "removeLegacy"
  /\ pc[c] \in {"getBinding", "legacyBinding"} => "legacyAccount" \notin objects
  /\ Returned(c, "postCheck", "token") => New \subseteq objects
  /\ Returned(c, "removeLegacy", "ok") /\ driver # "eks" => objects \cap Legacy = {}

\* The inductive invariant.
AccountInv == PcType /\ \A c \in Callers : CallerInv(c)

\* what a step of caller c does to the others: their labels stay, the objects they
\* count on stay, and legacy objects do not come back
Harmless(c) ==
  /\ PcType'
  /\ \A d \in Callers \ {c} : pc'[d] = pc[d] /\ op'[d] = op[d] /\ answer'[d] = answer[d]
  /\ driver' = driver
  /\ objects \cap New \subseteq objects'
  /\ objects' \cap Legacy \subseteq objects

-----------------------------------------------------------------------------
\* A harmless step keeps the invariant if it keeps it of the caller that takes it.
LEMMA HarmlessKeeps ==
  ASSUME AccountInv, NEW c \in Callers, Harmless(c), CallerInv(c)'
  PROVE  AccountInv'
  <1>1. ASSUME NEW d \in Callers, d # c PROVE CallerInv(d)'
    <2>1. CallerInv(d) /\ pc'[d] = pc[d] /\ op'[d] = op[d] /\ answer'[d] = answer[d]
      BY <1>1 DEF AccountInv, Harmless
    <2>2. Built(pc[d]) \subseteq New
      BY DEF Built, New
    <2>3. "legacyAccount" \in Legacy
      BY DEF Legacy
    <2> QED
      BY <2>1, <2>2, <2>3 DEF CallerInv, Harmless, Returned
  <1> QED
    BY <1>1 DEF AccountInv, Harmless

\* A caller that returns with an error, or begins another attempt, relies on nothing.
LEMMA FailKeeps ==
  ASSUME AccountInv, NEW c \in Callers, NEW e \in Errors, Fail(c, e),
         driver' = driver, pc[c] \in Generating \cup Removing,
         objects \cap New \subseteq objects', objects' \cap Legacy \subseteq objects
  PROVE  AccountInv'
  <1>1. e \notin {"token", "ok"}
    BY DEF Errors
  <1>2. /\ pc' = [pc EXCEPT ![c] = "idle"]
           \/ (op[c] = "postCheck" /\ pc' = [pc EXCEPT ![c] = FirstStep])
        /\ answer' = [answer EXCEPT ![c] = e]
        /\ op' = op
    BY DEF Fail, Return
  <1>3. FirstStep \in {"version", "namespace"}
    BY DEF FirstStep
  <1>4. Harmless(c)
    BY <1>2, <1>3 DEF Harmless, AccountInv, PcType, Steps
  <1>5. CallerInv(c)'
    BY <1>1, <1>2, <1>3 DEF CallerInv, Built, Generating, Removing, Returned, AccountInv, PcType
  <1> QED
    BY <1>4, <1>5, HarmlessKeeps

\* The objects of the new account and of the legacy one are different.
LEMMA NewIsNotLegacy == New \cap Legacy = {}
  BY DEF New, Legacy

LEMMA CreateKeeps ==
  ASSUME AccountInv, NEW c \in Callers, NEW o \in New, Create(c, o)
  PROVE  AccountInv'
  <1>1. /\ pc[c] = o /\ driver' = driver
        /\ objects \cap New \subseteq objects' /\ objects' \cap Legacy \subseteq objects
    BY NewIsNotLegacy DEF Create
  <1>2. o \in Generating /\ op[c] = "postCheck" /\ Built(o) \subseteq objects
    BY <1>1 DEF New, Generating, AccountInv, CallerInv
  <1>3. CASE Goto(c, AfterCreate(o)) /\ objects' = objects \cup {o}
    <2>1. Harmless(c)
      BY <1>1, <1>3 DEF Harmless, Goto, AccountInv, PcType, AfterCreate, New, Steps
    <2>2. pc'[c] = AfterCreate(o) /\ op'[c] = "postCheck"
      BY <1>2, <1>3 DEF Goto, AccountInv, PcType
    <2>3. Built(AfterCreate(o)) \subseteq objects'
      BY <1>2, <1>3 DEF Built, AfterCreate, New
    <2>4. AfterCreate(o) \in {"account", "getRole", "binding", "poll"}
      BY DEF AfterCreate, New
    <2>5. CallerInv(c)'
      BY <2>2, <2>3, <2>4 DEF CallerInv, Generating, Removing, Returned
    <2> QED
      BY <2>1, <2>5, HarmlessKeeps
  <1>4. CASE \E e \in {"exists", "api"} : Fail(c, e)
    BY <1>1, <1>2, <1>4, FailKeeps DEF Errors
  <1> QED
    BY <1>3, <1>4 DEF Create, Faulty

\* A caller that moves on to a label, with the cluster as it is.
LEMMA MoveKeeps ==
  ASSUME AccountInv, NEW c \in Callers, NEW l \in Steps,
         pc' = [pc EXCEPT ![c] = l], UNCHANGED <<op, answer, driver, objects>>,
         Built(l) \subseteq objects,
         l \in Generating => op[c] = "postCheck",
         l \in Removing => op[c] = "removeLegacy",
         l \in {"getBinding", "legacyBinding"} => "legacyAccount" \notin objects
  PROVE  AccountInv'
  <1>1. Harmless(c)
    BY DEF Harmless, AccountInv, PcType
  <1>2. pc'[c] = l /\ l # "idle"
    BY DEF AccountInv, PcType, Steps
  <1>3. CallerInv(c)'
    BY <1>2 DEF CallerInv, Returned
  <1> QED
    BY <1>1, <1>3, HarmlessKeeps

LEMMA GenerateKeeps ==
  ASSUME AccountInv, NEW c \in Callers, ServerVersion(c) \/ GetRole(c) \/ Poll(c)
  PROVE  AccountInv'
  <1>1. UNCHANGED <<driver, objects>> /\ CallerInv(c)
    BY DEF ServerVersion, GetRole, Poll, cluster, AccountInv
  <1>2. pc[c] \in {"version", "getRole", "poll"} /\ op[c] = "postCheck"
    BY <1>1 DEF ServerVersion, GetRole, Poll, CallerInv, Generating
  <1>3. CASE ServerVersion(c)
    <2>1. CASE Goto(c, "namespace")
      BY <1>1, <1>2, <2>1, MoveKeeps DEF Goto, Built, Steps, Generating, Removing
    <2>2. CASE Fail(c, "api")
      BY <1>1, <1>2, <2>2, FailKeeps DEF Errors, Generating
    <2> QED
      BY <1>3, <2>1, <2>2 DEF ServerVersion, Faulty
  <1>4. CASE GetRole(c)
    <2>1. Built("role") \subseteq objects
      BY <1>1, <1>4 DEF GetRole, CallerInv, Built
    <2>2. "role" \in objects => Built("binding") \subseteq objects
      BY <2>1 DEF Built
    <2>3. PICK l \in {"role", "binding"} :
            /\ pc' = [pc EXCEPT ![c] = l] /\ UNCHANGED <<op, answer>>
            /\ Built(l) \subseteq objects
      BY <1>4, <2>1, <2>2 DEF GetRole, Goto
    <2> QED
      BY <1>1, <1>2, <2>3, MoveKeeps DEF Steps, Generating, Removing
  <1>5. CASE Poll(c)
    <2>1. New \subseteq objects
      BY <1>1, <1>5 DEF Poll, CallerInv, Built
    <2>2. CASE Return(c, "token")
      <3>1. /\ pc' = [pc EXCEPT ![c] = "idle"] /\ answer' = [answer EXCEPT ![c] = "token"]
            /\ op' = op
        BY <2>2 DEF Return
      <3>2. Harmless(c)
        BY <1>1, <3>1 DEF Harmless, AccountInv, PcType
      <3>3. CallerInv(c)'
        BY <1>1, <1>2, <2>1, <3>1
           DEF CallerInv, Built, Generating, Removing, Returned, AccountInv, PcType
      <3> QED
        BY <3>2, <3>3, HarmlessKeeps
    <2>3. CASE UNCHANGED <<pc, op, answer>>
      BY <1>1, <2>3 DEF AccountInv, PcType, CallerInv, Returned
    <2>4. CASE \E e \in {"timeout", "api"} : Fail(c, e)
      BY <1>1, <1>2, <2>4, FailKeeps DEF Errors, Generating
    <2> QED
      BY <1>5, <2>2, <2>3, <2>4 DEF Poll, Faulty
  <1> QED
    BY <1>3, <1>4, <1>5

\* After the deletion, or the lookup that finds nothing to delete.
LEMMA AfterDeleteKeeps ==
  ASSUME AccountInv, NEW c \in Callers, NEW o \in Legacy, AfterDelete(c, o),
         driver' = driver, objects' = objects \ {o}, op[c] = "removeLegacy",
         o = "legacyBinding" => "legacyAccount" \notin objects
  PROVE  AccountInv'
  <1>1. objects \cap New \subseteq objects'
    BY NewIsNotLegacy
  <1>2. CASE o = "legacyAccount"
    <2>1. pc' = [pc EXCEPT ![c] = "getBinding"] /\ UNCHANGED <<op, answer>>
      BY <1>2 DEF AfterDelete, Goto
    <2>2. Harmless(c)
      BY <1>1, <2>1 DEF Harmless, AccountInv, PcType, Steps
    <2>3. CallerInv(c)'
      BY <1>2, <2>1 DEF CallerInv, Built, Generating, Removing, Returned, AccountInv, PcType
    <2> QED
      BY <2>2, <2>3, HarmlessKeeps
  <1>3. CASE o = "legacyBinding"
    <2>1. /\ pc' = [pc EXCEPT ![c] = "idle"] /\ answer' = [answer EXCEPT ![c] = "ok"]
          /\ op' = op
      BY <1>3 DEF AfterDelete, Return
    <2>2. Harmless(c)
      BY <1>1, <2>1 DEF Harmless, AccountInv, PcType
    <2>3. objects' \cap Legacy = {}
      BY <1>3 DEF Legacy
    <2>4. CallerInv(c)'
      BY <2>1, <2>3 DEF CallerInv, Built, Generating, Removing, Returned, AccountInv, PcType
    <2> QED
      BY <2>2, <2>4, HarmlessKeeps
  <1> QED
    BY <1>2, <1>3 DEF Legacy

LEMMA GetLegacyKeeps ==
  ASSUME AccountInv, NEW c \in Callers, NEW o \in Legacy, NEW l \in {"getAccount", "getBinding"},
         o = "legacyBinding" <=> l = "getBinding", GetLegacy(c, o, l)
  PROVE  AccountInv'
  <1>1. /\ pc[c] = l /\ UNCHANGED <<driver, objects>> /\ op[c] = "removeLegacy"
        /\ o = "legacyBinding" => "legacyAccount" \notin objects
    BY DEF GetLegacy, cluster, AccountInv, CallerInv, Removing
  <1>2. CASE o \notin objects /\ AfterDelete(c, o)
    BY <1>1, <1>2, AfterDeleteKeeps
  <1>3. CASE pc' = [pc EXCEPT ![c] = o] /\ UNCHANGED <<op, answer>>
    BY <1>1, <1>3, MoveKeeps DEF Legacy, Steps, Built, Generating, Removing
  <1> QED
    BY <1>2, <1>3 DEF GetLegacy, Goto

LEMMA DeleteLegacyKeeps ==
  ASSUME AccountInv, NEW c \in Callers, NEW o \in Legacy, DeleteLegacy(c, o)
  PROVE  AccountInv'
  <1>1. /\ pc[c] = o /\ driver' = driver /\ o \in Removing /\ op[c] = "removeLegacy"
        /\ o = "legacyBinding" => "legacyAccount" \notin objects
    BY DEF DeleteLegacy, AccountInv, CallerInv, Removing, Legacy
  <1>2. objects \cap New \subseteq objects' /\ objects' \cap Legacy \subseteq objects
    BY NewIsNotLegacy DEF DeleteLegacy
  <1>3. CASE objects' = objects \ {o} /\ AfterDelete(c, o)
    BY <1>1, <1>3, AfterDeleteKeeps
  <1>4. CASE \E e \in {"notFound", "api"} : Fail(c, e)
    BY <1>1, <1>2, <1>4, FailKeeps DEF Errors
  <1> QED
    BY <1>3, <1>4 DEF DeleteLegacy, Faulty

-----------------------------------------------------------------------------
\* The invariant holds in every state.
LEMMA AccountInvariant == Spec => []AccountInv
  <1>1. Init => AccountInv
    BY DEF Init, AccountInv, PcType, CallerInv, Built, Generating, Removing, Returned
  <1>2. AccountInv /\ [Next]_vars => AccountInv'
    <2> SUFFICES ASSUME AccountInv, [Next]_vars PROVE AccountInv'
      OBVIOUS
    <2>1. ASSUME NEW c \in Callers, NEW o \in {"postCheck", "removeLegacy"}, Begin(c, o)
          PROVE  AccountInv'
      <3>1. Harmless(c)
        BY <2>1 DEF Begin, cluster, Harmless, AccountInv, PcType, Steps
      <3>2. CallerInv(c)'
        BY <2>1 DEF Begin, CallerInv, Built, Generating, Removing, Returned, AccountInv, PcType
      <3> QED
        BY <3>1, <3>2, HarmlessKeeps
    <2>2. ASSUME NEW c \in Callers, GetClientset(c) PROVE AccountInv'
      <3>1. UNCHANGED <<driver, objects>> /\ op[c] \in {"postCheck", "removeLegacy"}
        BY <2>2 DEF GetClientset, cluster, AccountInv, PcType
      <3>2. CASE Goto(c, IF op[c] = "postCheck" THEN FirstStep ELSE "getAccount")
        <4>1. FirstStep \in {"version", "namespace"}
          BY DEF FirstStep
        <4> QED
          BY <3>1, <3>2, <4>1, MoveKeeps DEF Goto, Steps, Built, Generating, Removing
      <3>3. CASE NoClientset(c)
        <4>1. PICK a \in {"ok", "api"} :
                /\ pc' = [pc EXCEPT ![c] = "idle"] /\ answer' = [answer EXCEPT ![c] = a]
                /\ op' = op /\ (a = "ok" => driver = "eks")
          BY <3>3 DEF NoClientset, Return
        <4>2. Harmless(c)
          BY <3>1, <4>1 DEF Harmless, AccountInv, PcType, Errors
        <4>3. CallerInv(c)'
          BY <3>1, <4>1 DEF CallerInv, Built, Generating, Removing, Returned, AccountInv, PcType
        <4> QED
          BY <4>2, <4>3, HarmlessKeeps
      <3> QED
        BY <2>2, <3>2, <3>3 DEF GetClientset
    <2>3. ASSUME NEW c \in Callers, Die(c) PROVE AccountInv'
      <3>1. /\ pc' = [pc EXCEPT ![c] = "idle"] /\ answer' = [answer EXCEPT ![c] = "api"]
            /\ op' = op /\ UNCHANGED <<driver, objects>>
        BY <2>3 DEF Die, Return, cluster
      <3>2. Harmless(c)
        BY <3>1 DEF Harmless, AccountInv, PcType, Errors
      <3>3. CallerInv(c)'
        BY <3>1 DEF CallerInv, Built, Generating, Removing, Returned, AccountInv, PcType
      <3> QED
        BY <3>2, <3>3, HarmlessKeeps
    <2>4. ASSUME NEW c \in Callers, CallerStep(c), ~GetClientset(c) PROVE AccountInv'
      <3>1. CASE ServerVersion(c) \/ GetRole(c) \/ Poll(c)
        BY <3>1, GenerateKeeps
      <3>2. CASE \E o \in New : Create(c, o)
        BY <3>2, CreateKeeps
      <3>3. CASE \/ GetLegacy(c, "legacyAccount", "getAccount")
                 \/ GetLegacy(c, "legacyBinding", "getBinding")
        BY <3>3, GetLegacyKeeps DEF Legacy
      <3>4. CASE \E o \in Legacy : DeleteLegacy(c, o)
        BY <3>4, DeleteLegacyKeeps
      <3> QED
        BY <2>4, <3>1, <3>2, <3>3, <3>4 DEF CallerStep
    <2>5. CASE TokenController \/ UNCHANGED vars
      BY <2>5 DEF TokenController, vars, AccountInv, PcType, CallerInv, Returned
    <2> QED
      BY <2>1, <2>2, <2>3, <2>4, <2>5 DEF Next
  <1> QED
    BY <1>1, <1>2, PTL DEF Spec

\* A token that PostCheck hands out is that of a cluster-admin, for any number of
\* callers that race, fail and die.
THEOREM TokensAreAdmin == Spec => []TokenIsAdmin
  <1>1. AccountInv => TokenIsAdmin
    BY DEF AccountInv, CallerInv, TokenIsAdmin
  <1> QED
    BY <1>1, AccountInvariant, PTL

\* A reported removal of the legacy account is one, for any number of callers.
THEOREM RemovalsRemove == Spec => []LegacyGone
  <1>1. AccountInv => LegacyGone
    BY DEF AccountInv, CallerInv, LegacyGone
  <1> QED
    BY <1>1, AccountInvariant, PTL

-----------------------------------------------------------------------------
(* RetryTolerant: a call that is calm is alone, so that what it looked up  *)
(* is still so when it acts on it.                                         *)

Good == {"none", "token", "ok", "timeout"}

CalmAt(c) ==
  calm[c] =>
    /\ answer[c] \in Good
    /\ pc[c] # "idle" => \A d \in Callers \ {c} : pc[d] = "idle"
    /\ pc[c] = "role" => "role" \notin objects
    /\ pc[c] \in Legacy => pc[c] \in objects

CalmInv == calm \in [Callers -> BOOLEAN] /\ \A c \in Callers : CalmAt(c)

\* what a step of a caller may do to its own calm
StaysCalm(c) ==
  /\ calm' \in [Callers -> BOOLEAN]
  /\ \A d \in Callers \ {c} : pc'[d] = pc[d] /\ answer'[d] = answer[d] /\ calm'[d] = calm[d]
  /\ calm'[c] =>
       /\ calm[c] /\ answer'[c] \in Good
       /\ pc'[c] = "role" => "role" \notin objects'
       /\ pc'[c] \in Legacy => pc'[c] \in objects'

\* The other callers are not calm while this one is at work, or have returned.
LEMMA StaysCalmKeeps ==
  ASSUME CalmInv, NEW c \in Callers, pc[c] # "idle", StaysCalm(c)
  PROVE  CalmInv'
  <1>1. ASSUME NEW d \in Callers, d # c PROVE CalmAt(d)'
    <2>1. CalmAt(d) /\ pc'[d] = pc[d] /\ answer'[d] = answer[d] /\ calm'[d] = calm[d]
      BY <1>1 DEF CalmInv, StaysCalm
    <2>2. calm[d] => pc[d] = "idle"
      BY <1>1, <2>1 DEF CalmAt
    <2> QED
      BY <2>1, <2>2 DEF CalmAt, Legacy
  <1>2. CalmAt(c)'
    BY DEF CalmInv, CalmAt, StaysCalm
  <1> QED
    BY <1>1, <1>2 DEF CalmInv, StaysCalm

\* A fault ends the calm, whatever the step does.
LEMMA FaultKeeps ==
  ASSUME CalmInv, PcType, NEW c \in Callers, pc[c] # "idle", Fault(c), NEW l, NEW a,
         pc' = [pc EXCEPT ![c] = l], answer' = [answer EXCEPT ![c] = a]
  PROVE  CalmInv'
  <1>1. StaysCalm(c)
    BY DEF StaysCalm, CalmInv, PcType, Fault
  <1> QED
    BY <1>1, StaysCalmKeeps

\* Faulty is a fault.
LEMMA FaultyKeeps ==
  ASSUME CalmInv, PcType, NEW c \in Callers, pc[c] # "idle", Faulty(c)
  PROVE  CalmInv'
  <1>1. /\ answer' = [answer EXCEPT ![c] = "api"]
        /\ \/ pc' = [pc EXCEPT ![c] = FirstStep]
           \/ pc' = [pc EXCEPT ![c] = "idle"]
    BY DEF Faulty, Fail, Return
  <1> QED
    BY <1>1, FaultKeeps DEF Faulty

\* A step without a fault: the caller moves to a label that fits the cluster.
LEMMA QuietKeeps ==
  ASSUME CalmInv, PcType, NEW c \in Callers, pc[c] # "idle", NEW l, NEW a,
         pc' = [pc EXCEPT ![c] = l], answer' = [answer EXCEPT ![c] = a], calm' = calm,
         calm[c] => /\ a \in Good
                    /\ l = "role" => "role" \notin objects'
                    /\ l \in Legacy => l \in objects'
  PROVE  CalmInv'
  <1>1. StaysCalm(c)
    BY DEF StaysCalm, CalmInv, PcType
  <1> QED
    BY <1>1, StaysCalmKeeps

\* Goto, and the end of a call.
LEMMA GotoKeeps ==
  ASSUME CalmInv, PcType, NEW c \in Callers, pc[c] # "idle", NEW l, Goto(c, l),
         calm[c] => /\ l = "role" => "role" \notin objects'
                    /\ l \in Legacy => l \in objects'
  PROVE  CalmInv'
  <1>1. answer' = [answer EXCEPT ![c] = answer[c]]
    BY DEF Goto, PcType
  <1>2. calm[c] => answer[c] \in Good
    BY DEF CalmInv, CalmAt
  <1> QED
    BY <1>1, <1>2, QuietKeeps DEF Goto

LEMMA ReturnKeeps ==
  ASSUME CalmInv, PcType, NEW c \in Callers, pc[c] # "idle", NEW a, calm[c] => a \in Good,
         Return(c, a) \/ Fail(c, a), calm' = calm
  PROVE  CalmInv'
  <1>1. /\ answer' = [answer EXCEPT ![c] = a]
        /\ \/ pc' = [pc EXCEPT ![c] = FirstStep]
           \/ pc' = [pc EXCEPT ![c] = "idle"]
    BY DEF Fail, Return
  <1>2. FirstStep \notin Legacy \cup {"role"}
    BY DEF FirstStep, Legacy
  <1>3. "idle" \notin Legacy \cup {"role"}
    BY DEF Legacy
  <1> QED
    BY <1>1, <1>2, <1>3, QuietKeeps

\* Every step keeps the calm.
LEMMA CalmStep ==
  ASSUME CalmInv, PcType, PcType', [Next]_vars
  PROVE  CalmInv'
  <1>1. ASSUME NEW c \in Callers, NEW o \in {"postCheck", "removeLegacy"}, Begin(c, o)
        PROVE  CalmInv'
    <2>1. /\ pc[c] = "idle" /\ pc' = [pc EXCEPT ![c] = "clientset"]
          /\ answer' = [answer EXCEPT ![c] = "none"] /\ objects' = objects
          /\ calm' = [d \in Callers |-> IF d = c \/ pc[d] # "idle"
                                          THEN \A e \in Callers : pc[e] = "idle"
                                          ELSE calm[d]]
      BY <1>1 DEF Begin, cluster
    <2>2. calm' \in [Callers -> BOOLEAN]
      BY <2>1 DEF CalmInv
    <2>3. CalmAt(c)'
      BY <2>1 DEF CalmAt, PcType, Good, Legacy
    <2>4. ASSUME NEW d \in Callers, d # c PROVE CalmAt(d)'
      <3>1. pc'[d] = pc[d] /\ answer'[d] = answer[d] /\ CalmAt(d)
        BY <2>1, <2>4 DEF PcType, CalmInv
      <3>2. calm'[d] => pc[d] = "idle" /\ calm[d]
        BY <2>1, <2>4
      <3> QED
        BY <3>1, <3>2 DEF CalmAt, Legacy
    <2> QED
      BY <2>2, <2>3, <2>4 DEF CalmInv
  <1>2. ASSUME NEW c \in Callers, GetClientset(c) PROVE CalmInv'
    <2>1. pc[c] # "idle" /\ FirstStep \notin Legacy \cup {"role"} /\ "getAccount" \notin Legacy
      BY <1>2 DEF GetClientset, FirstStep, Legacy
    <2>2. CASE Goto(c, IF op[c] = "postCheck" THEN FirstStep ELSE "getAccount")
      BY <2>1, <2>2, GotoKeeps
    <2>3. CASE Fault(c) /\ NoClientset(c)
      BY <2>1, <2>3, FaultKeeps DEF NoClientset, Return
    <2> QED
      BY <1>2, <2>2, <2>3 DEF GetClientset
  <1>3. ASSUME NEW c \in Callers, ServerVersion(c) PROVE CalmInv'
    BY <1>3, GotoKeeps, FaultyKeeps DEF ServerVersion, Legacy
  <1>4. ASSUME NEW c \in Callers, GetRole(c) PROVE CalmInv'
    <2>1. pc[c] # "idle" /\ objects' = objects
      BY <1>4 DEF GetRole, cluster
    <2>2. CASE Goto(c, IF "role" \in objects THEN "binding" ELSE "role")
      BY <2>1, <2>2, GotoKeeps DEF Legacy
    <2>3. CASE Fault(c) /\ pc' = [pc EXCEPT ![c] = "role"] /\ UNCHANGED answer
      <3>1. answer' = [answer EXCEPT ![c] = answer[c]]
        BY <2>3 DEF PcType
      <3> QED
        BY <2>1, <2>3, <3>1, FaultKeeps
    <2> QED
      BY <1>4, <2>2, <2>3 DEF GetRole
  <1>5. ASSUME NEW c \in Callers, Poll(c) PROVE CalmInv'
    <2>1. pc[c] = "poll" /\ objects' = objects
      BY <1>5 DEF Poll, cluster
    <2>2. CASE calm' = calm /\ (Return(c, "token") \/ Fail(c, "timeout"))
      BY <2>1, <2>2, ReturnKeeps DEF Good
    <2>3. CASE UNCHANGED <<pc, answer, calm>>
      BY <2>1, <2>3 DEF CalmInv, CalmAt
    <2>4. CASE Faulty(c)
      BY <2>1, <2>4, FaultyKeeps
    <2> QED
      BY <1>5, <2>2, <2>3, <2>4 DEF Poll
  <1>6. ASSUME NEW c \in Callers, NEW o \in New, Create(c, o) PROVE CalmInv'
    <2>1. pc[c] = o /\ pc[c] # "idle"
      BY <1>6 DEF Create, New
    <2>2. CASE Goto(c, AfterCreate(o))
      <3>1. AfterCreate(o) \notin Legacy \cup {"role"}
        BY DEF AfterCreate, New, Legacy
      <3> QED
        BY <2>1, <2>2, <3>1, GotoKeeps
    <2>3. CASE o \in objects /\ ~Tolerates(o) /\ Fail(c, "exists") /\ calm' = calm
      <3>1. o = "role"
        BY <2>3 DEF Tolerates, New
      <3>2. ~calm[c]
        BY <2>1, <2>3, <3>1 DEF CalmInv, CalmAt
      <3> QED
        BY <2>1, <2>3, <3>2, ReturnKeeps
    <2>4. CASE Faulty(c)
      BY <2>1, <2>4, FaultyKeeps
    <2> QED
      BY <1>6, <2>2, <2>3, <2>4 DEF Create
  <1>7. ASSUME NEW c \in Callers, NEW o \in Legacy, pc[c] # "idle", AfterDelete(c, o)
        PROVE  CalmInv'
    <2>1. CASE Goto(c, "getBinding")
      BY <1>7, <2>1, GotoKeeps DEF Legacy
    <2>2. CASE Return(c, "ok") /\ calm' = calm
      BY <1>7, <2>2, ReturnKeeps DEF Good
    <2> QED
      BY <1>7, <2>1, <2>2 DEF AfterDelete
  <1>8. ASSUME NEW c \in Callers, NEW o \in Legacy, NEW l \in {"getAccount", "getBinding"},
               GetLegacy(c, o, l)
        PROVE  CalmInv'
    <2>1. pc[c] # "idle" /\ objects' = objects
      BY <1>8 DEF GetLegacy, cluster
    <2>2. CASE o \in objects /\ Goto(c, o)
      BY <2>1, <2>2, GotoKeeps DEF Legacy
    <2>3. CASE AfterDelete(c, o)
      BY <1>7, <2>1, <2>3
    <2>4. CASE Fault(c) /\ pc' = [pc EXCEPT ![c] = o] /\ UNCHANGED answer
      <3>1. answer' = [answer EXCEPT ![c] = answer[c]]
        BY <2>4 DEF PcType
      <3> QED
        BY <2>1, <2>4, <3>1, FaultKeeps
    <2> QED
      BY <1>8, <2>2, <2>3, <2>4 DEF GetLegacy
  <1>9. ASSUME NEW c \in Callers, NEW o \in Legacy, DeleteLegacy(c, o) PROVE CalmInv'
    <2>1. pc[c] = o /\ pc[c] # "idle"
      BY <1>9 DEF DeleteLegacy, Legacy
    <2>2. CASE AfterDelete(c, o)
      BY <1>7, <2>1, <2>2
    <2>3. CASE o \notin objects /\ Fail(c, "notFound") /\ calm' = calm
      <3>1. ~calm[c]
        BY <2>1, <2>3 DEF CalmInv, CalmAt
      <3> QED
        BY <2>1, <2>3, <3>1, ReturnKeeps
    <2>4. CASE Faulty(c)
      BY <2>1, <2>4, FaultyKeeps
    <2> QED
      BY <1>9, <2>2, <2>3, <2>4 DEF DeleteLegacy
  <1>10. ASSUME NEW c \in Callers, Die(c) PROVE CalmInv'
    BY <1>10, FaultKeeps DEF Die, Return
  <1>11. CASE TokenController \/ UNCHANGED vars
    BY <1>11 DEF TokenController, vars, CalmInv, CalmAt
  <1>12. ASSUME NEW c \in Callers, CallerStep(c) PROVE CalmInv'
    BY <1>2, <1>3, <1>4, <1>5, <1>6, <1>8, <1>9, <1>12 DEF CallerStep, Legacy
  <1> QED
    BY <1>1, <1>10, <1>11, <1>12 DEF Next

\* A call that meets neither a fault nor another caller fails for nothing but a token
\* that does not come, whatever the calls before it left half done.
THEOREM RetriesAreTolerant == Spec => []RetryTolerant
  <1>1. Init => CalmInv
    BY DEF Init, CalmInv, CalmAt, Good, Legacy
  <1>2. AccountInv => PcType
    BY DEF AccountInv
  <1>3. CalmInv /\ PcType /\ PcType' /\ [Next]_vars => CalmInv'
    BY CalmStep
  <1>4. CalmInv => RetryTolerant
    BY DEF CalmInv, CalmAt, Good, RetryTolerant
  <1> QED
    BY <1>1, <1>2, <1>3, <1>4, AccountInvariant, PTL DEF Spec
=============================================================================
