--------------------------- MODULE ServiceAccount ---------------------------
(***************************************************************************)
(* The service account of the engine in a cluster: the drivers' PostCheck  *)
(* makes it and reads its token (GenerateServiceAccountToken in            *)
(* drivers/util/utils.go, with the retries of the rke, aks, eks and import *)
(* drivers), RemoveLegacyServiceAccount deletes the account of earlier     *)
(* versions.  One step per request to the Kubernetes API; several callers  *)
(* may be at work on the same cluster.  The API and its token controller   *)
(* are external: a request may fail, before or after it took effect.       *)
(***************************************************************************)
EXTENDS Naturals, FiniteSets

CONSTANTS
  Callers,    \* calls of the driver that may overlap
  Drivers,    \* the drivers considered
  MaxFaults   \* how many requests fail and callers die (a bound)

AllDrivers == {"rke", "aks", "eks", "gke", "import"}

ASSUME ServiceAccountAssumption ==
  /\ Drivers \subseteq AllDrivers
  /\ MaxFaults \in Nat

MaxPolls == 5   \* for i := 0; i < 5; i++ of GenerateServiceAccountToken

\* how often PostCheck calls GenerateServiceAccountToken: rke three times; aks
\* counts five retries
Attempts(d) == CASE d = "rke" -> 3 [] d = "aks" -> 6 [] OTHER -> 1

VARIABLES
  driver,   \* the driver of the cluster
  objects,  \* the objects in the cluster
  secret,   \* of the account: none, listed without a token, or with one
  pc,       \* the next step of each caller; "idle" between calls
  op,       \* the call of each caller
  attempt,  \* of PostCheck
  polls,    \* the counter of GenerateServiceAccountToken
  answer,   \* what the last call of each caller returned, or its last error
  calm,     \* history: the call has met no fault and no other caller so far
  faults    \* history: the number of faults

vars == <<driver, objects, secret, pc, op, attempt, polls, answer, calm, faults>>

New    == {"namespace", "account", "role", "binding"}
Legacy == {"legacyAccount", "legacyBinding"}
Steps  == {"clientset", "version", "namespace", "account", "getRole", "role", "binding", "poll",
           "getAccount", "legacyAccount", "getBinding", "legacyBinding"}
Errors == {"api", "exists", "notFound", "timeout"}

TypeOK ==
  /\ driver \in Drivers
  /\ objects \subseteq New \cup Legacy
  /\ secret \in {"none", "listed", "token"}
  /\ pc \in [Callers -> Steps \cup {"idle"}]
  /\ op \in [Callers -> {"postCheck", "removeLegacy"}]
  /\ attempt \in [Callers -> 1..6] /\ \A c \in Callers : attempt[c] <= Attempts(driver)
  /\ polls \in [Callers -> 0..(MaxPolls - 1)]
  /\ answer \in [Callers -> {"none", "token", "ok"} \cup Errors]
  /\ calm \in [Callers -> BOOLEAN]
  /\ faults \in 0..MaxFaults

\* a cluster with or without the role cluster-admin, and with or without what an
\* earlier version of the engine left
Init ==
  /\ driver \in Drivers
  /\ objects \in SUBSET ({"role"} \cup Legacy)
  /\ secret = "none"
  /\ pc = [c \in Callers |-> "idle"]
  /\ op = [c \in Callers |-> "postCheck"]
  /\ attempt = [c \in Callers |-> 1]
  /\ polls = [c \in Callers |-> 0]
  /\ answer = [c \in Callers |-> "none"]
  /\ calm = [c \in Callers |-> TRUE]
  /\ faults = 0

-----------------------------------------------------------------------------
(* Calls begin and return.                                                 *)

cluster == <<driver, objects, secret>>

\* RemoveLegacyServiceAccount is not implemented by import; the PostCheck of gke
\* takes a token from Google and makes no account
Begin(c, o) ==
  /\ pc[c] = "idle"
  /\ driver = "gke" => o = "removeLegacy"
  /\ driver = "import" => o = "postCheck"
  /\ op' = [op EXCEPT ![c] = o]
  /\ pc' = [pc EXCEPT ![c] = "clientset"]
  /\ attempt' = [attempt EXCEPT ![c] = 1]
  /\ polls' = [polls EXCEPT ![c] = 0]
  /\ answer' = [answer EXCEPT ![c] = "none"]
  /\ calm' = [d \in Callers |-> IF d = c \/ pc[d] # "idle"
                                  THEN \A e \in Callers : pc[e] = "idle"
                                  ELSE calm[d]]
  /\ UNCHANGED <<cluster, faults>>

Goto(c, l) ==
  /\ pc' = [pc EXCEPT ![c] = l]
  /\ UNCHANGED <<op, attempt, answer, calm>>

Return(c, a) ==
  /\ pc' = [pc EXCEPT ![c] = "idle"]
  /\ answer' = [answer EXCEPT ![c] = a]
  /\ UNCHANGED <<op, attempt, polls>>

\* the first step of an attempt: rke and import ask for the server's version first
FirstStep == IF driver \in {"rke", "import"} THEN "version" ELSE "namespace"

\* the loops of PostCheck
AttemptsLeft(c) == attempt[c] < Attempts(driver)

\* an error of an attempt: PostCheck tries again, RemoveLegacyServiceAccount returns it
Fail(c, e) ==
  IF op[c] = "postCheck" /\ AttemptsLeft(c)
    THEN /\ pc' = [pc EXCEPT ![c] = FirstStep]
         /\ attempt' = [attempt EXCEPT ![c] = @ + 1]
         /\ polls' = [polls EXCEPT ![c] = 0]
         /\ answer' = [answer EXCEPT ![c] = e]
         /\ UNCHANGED op
    ELSE Return(c, e)

\* a request fails
Fault(c) ==
  /\ faults < MaxFaults
  /\ faults' = faults + 1
  /\ calm' = [calm EXCEPT ![c] = FALSE]

Faulty(c) == Fault(c) /\ Fail(c, "api")

-----------------------------------------------------------------------------
(* The clientset.                                                          *)

\* mutant of NoClientset: every driver drops the error
NoClientsetDropped(c) == Return(c, "ok")

\* getClientset asks the provider for the endpoint and the credentials.  The error
\* ends the call; RemoveLegacyServiceAccount of eks drops it and reports success.
NoClientset(c) ==
  Return(c, IF driver = "eks" /\ op[c] = "removeLegacy" THEN "ok" ELSE "api")

GetClientset(c) ==
  /\ pc[c] = "clientset"
  /\ \/ Goto(c, IF op[c] = "postCheck" THEN FirstStep ELSE "getAccount")
        /\ UNCHANGED <<polls, faults>>
     \/ Fault(c) /\ NoClientset(c)
  /\ UNCHANGED cluster

ServerVersion(c) ==
  /\ pc[c] = "version"
  /\ \/ Goto(c, "namespace") /\ UNCHANGED <<polls, faults>>
     \/ Faulty(c)
  /\ UNCHANGED cluster

-----------------------------------------------------------------------------
(* GenerateServiceAccountToken.                                            *)

\* mutant of Tolerates: a namespace that is there is an error
ToleratesButNamespace(o) == o \in {"account", "binding"}

\* the objects of which IsAlreadyExists is not an error
Tolerates(o) == o \in {"namespace", "account", "binding"}

\* mutant of AfterCreate: the binding is left to the next attempt
AfterCreateSkipping(o) ==
  CASE o = "namespace" -> "account" [] o = "account" -> "getRole" [] OTHER -> "poll"

AfterCreate(o) ==
  CASE o = "namespace" -> "account" [] o = "account" -> "getRole"
    [] o = "role" -> "binding" [] o = "binding" -> "poll"

\* one object is created, or is there; the error may hide a success
Create(c, o) ==
  /\ pc[c] = o
  /\ \/ /\ o \notin objects \/ Tolerates(o)
        /\ objects' = objects \cup {o}
        /\ Goto(c, AfterCreate(o))
        /\ UNCHANGED <<polls, faults>>
     \/ /\ o \in objects /\ ~Tolerates(o)
        /\ Fail(c, "exists")
        /\ UNCHANGED <<objects, calm, faults>>
     \/ Faulty(c) /\ objects' \in {objects, objects \cup {o}}
  /\ UNCHANGED <<driver, secret>>

\* ClusterRoles.Get: any error, not only NotFound, leads to Create
GetRole(c) ==
  /\ pc[c] = "getRole"
  /\ \/ Goto(c, IF "role" \in objects THEN "binding" ELSE "role") /\ UNCHANGED <<polls, faults>>
     \/ /\ Fault(c)
        /\ pc' = [pc EXCEPT ![c] = "role"]
        /\ UNCHANGED <<op, attempt, polls, answer>>
  /\ UNCHANGED cluster

\* another turn of the loop is left after this one
PollsLeft(c) == polls[c] + 1 < MaxPolls

\* the account and its first secret are read until the secret has a token
Poll(c) ==
  /\ pc[c] = "poll"
  /\ \/ secret = "token" /\ Return(c, "token") /\ UNCHANGED <<calm, faults>>
     \/ /\ secret # "token" /\ PollsLeft(c)
        /\ polls' = [polls EXCEPT ![c] = @ + 1]
        /\ UNCHANGED <<pc, op, attempt, answer, calm, faults>>
     \/ secret # "token" /\ ~PollsLeft(c) /\ Fail(c, "timeout") /\ UNCHANGED <<calm, faults>>
     \/ Faulty(c)
  /\ UNCHANGED cluster

-----------------------------------------------------------------------------
(* DeleteLegacyServiceAccountAndRoleBinding.                               *)

AfterDelete(c, o) ==
  IF o = "legacyAccount" THEN Goto(c, "getBinding") /\ UNCHANGED polls
                         ELSE Return(c, "ok") /\ UNCHANGED calm

\* Get: only NotFound spares the Delete
GetLegacy(c, o, l) ==
  /\ pc[c] = l
  /\ \/ o \in objects /\ Goto(c, o) /\ UNCHANGED <<polls, faults>>
     \/ o \notin objects /\ AfterDelete(c, o) /\ UNCHANGED faults
     \/ /\ Fault(c)
        /\ pc' = [pc EXCEPT ![c] = o]
        /\ UNCHANGED <<op, attempt, polls, answer>>
  /\ UNCHANGED cluster

\* Delete: NotFound is an error here
DeleteLegacy(c, o) ==
  /\ pc[c] = o
  /\ \/ /\ o \in objects
        /\ objects' = objects \ {o}
        /\ AfterDelete(c, o)
        /\ UNCHANGED faults
     \/ /\ o \notin objects
        /\ Fail(c, "notFound")
        /\ UNCHANGED <<objects, calm, faults>>
     \/ Faulty(c) /\ objects' \in {objects, objects \ {o}}
  /\ UNCHANGED <<driver, secret>>

\* the engine is killed
Die(c) ==
  /\ pc[c] # "idle"
  /\ Fault(c)
  /\ Return(c, "api")
  /\ UNCHANGED cluster

-----------------------------------------------------------------------------
\* the token controller of the cluster, external: a secret, then its token
TokenController ==
  /\ "account" \in objects
  /\ secret # "token"
  /\ secret' = IF secret = "none" THEN "listed" ELSE "token"
  /\ UNCHANGED <<driver, objects, pc, op, attempt, polls, answer, calm, faults>>

CallerStep(c) ==
  \/ GetClientset(c) \/ ServerVersion(c) \/ GetRole(c) \/ Poll(c)
  \/ \E o \in New : Create(c, o)
  \/ GetLegacy(c, "legacyAccount", "getAccount") \/ GetLegacy(c, "legacyBinding", "getBinding")
  \/ \E o \in Legacy : DeleteLegacy(c, o)

Next ==
  \/ \E c \in Callers, o \in {"postCheck", "removeLegacy"} : Begin(c, o)
  \/ \E c \in Callers : CallerStep(c) \/ Die(c)
  \/ TokenController

Spec == Init /\ [][Next]_vars

-----------------------------------------------------------------------------
Returned(c, o, a) == pc[c] = "idle" /\ op[c] = o /\ answer[c] = a

\* Whoever gets a token gets one with the rights of cluster-admin: the account, the
\* role and the binding between them are there, although each of them may have been
\* made by another caller, or by an earlier call that failed or died half way.
TokenIsAdmin ==
  \A c \in Callers : Returned(c, "postCheck", "token") => New \subseteq objects

\* A call that meets neither a fault nor another caller is not stopped by what earlier
\* calls left half done: all that it can fail for is a token that does not come.
RetryTolerant ==
  \A c \in Callers :
    calm[c] /\ pc[c] = "idle" => answer[c] \in {"none", "token", "ok", "timeout"}

\* When RemoveLegacyServiceAccount reports success the legacy account and its binding
\* are gone, however its steps interleave with other callers and earlier attempts;
\* eks reports success as well when it could not reach the cluster.
LegacyGone ==
  \A c \in Callers :
    Returned(c, "removeLegacy", "ok") /\ driver # "eks" => objects \cap Legacy = {}
=============================================================================
