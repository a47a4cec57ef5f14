------------------------------ MODULE CLIStore ------------------------------
(***************************************************************************)
(* The store of the command line (store/clistore.go, store/filestore.go,   *)
(* utils.WriteToFile): one kubeconfig shared by all clusters, and for each *)
(* cluster a directory with config.json and three pem files.  Commands run *)
(* one at a time; a command may be killed between any two system calls,    *)
(* and any of these may fail.                                              *)
(*                                                                         *)
(* A cluster's credentials (endpoint, token, certificates) are a model     *)
(* value, its generation; the entries that the kubeconfig keeps under a    *)
(* cluster's name in clusters, users and contexts are one entry here: the  *)
(* code adds and deletes the three together.                               *)
(***************************************************************************)
EXTENDS Naturals, FiniteSets

CONSTANTS
  Names,    \* cluster names
  Gens,     \* generations of credentials
  Keyless,  \* the generations with a CA certificate only (eks, import)
  Bare,     \* the generations without any certificate
  Faults,   \* what may go wrong: "crash", "io" and "decode"
  MaxFaults \* how often it may (a bound)

NoGen == "none"   \* no credentials yet

ASSUME CLIStoreAssumption ==
  /\ NoGen \notin Gens /\ NoGen \notin Names
  /\ "kube" \notin Names   \* the kubeconfig is in no cluster's directory
  /\ Keyless \subseteq Gens /\ Bare \subseteq Gens
  /\ Faults \subseteq {"crash", "io", "decode"}
  /\ MaxFaults \in Nat

VARIABLES
  fs,       \* each file: absent, torn (half written) or whole, and its content
  phase,    \* the next step of the command under way
  cmd,      \* the store operation it runs: its name, its cluster, its credentials
  kube,     \* the KubeConfig it has in memory
  pending,  \* the files it has still to write
  file,     \* the file WriteToFile is writing
  done,     \* the last operation that returned, and what it returned
  stored,   \* history: the credentials of the last Store of each cluster
  faults    \* history: the number of faults so far

vars == <<fs, phase, cmd, kube, pending, file, done, stored, faults>>

Kube      == <<"kube", "config">>
Config(n) == <<n, "config">>
PemName   == {"ca", "key", "cert"}
Pem(n)    == {<<n, f>> : f \in PemName}
Dir(n)    == Pem(n) \cup {Config(n)}
File      == {Kube} \cup UNION {Dir(n) : n \in Names}

Credentials == Gens \cup {NoGen}
KubeConfig  == [entry : [Names -> Credentials], current : Names \cup {NoGen}]
EmptyKube   == [entry |-> [n \in Names |-> NoGen], current |-> NoGen]

Operation == {"Store", "PersistStatus", "Remove", "rmForce", "rmIgnore", "SetEnv"}
Phase == {"idle", "load", "readKube", "next", "stat", "open", "temp", "unlink",
          "rename", "removeAll"}
Command == [op : Operation \cup {"none"}, name : Names \cup {NoGen}, gen : Credentials]
NoCommand == [op |-> "none", name |-> NoGen, gen |-> NoGen]

Content(f) == IF f = Kube THEN KubeConfig ELSE Credentials

TypeOK ==
  /\ DOMAIN fs = File
  /\ \A f \in File : /\ fs[f].st \in {"absent", "torn", "whole"}
                     /\ fs[f].val \in Content(f)
  /\ phase \in Phase
  /\ cmd \in Command
  /\ kube \in KubeConfig
  /\ pending \subseteq File
  /\ file \in File
  /\ done \in [cmd : Command, ok : BOOLEAN]
  /\ stored \in [Names -> Credentials]
  /\ faults \in 0..MaxFaults

Absent(f) == [st |-> "absent", val |-> IF f = Kube THEN EmptyKube ELSE NoGen]

Init ==
  /\ fs = [f \in File |-> Absent(f)]
  /\ phase = "idle"
  /\ cmd = NoCommand
  /\ kube = EmptyKube
  /\ pending = {}
  /\ file = Kube
  /\ done = [cmd |-> NoCommand, ok |-> TRUE]
  /\ stored = [n \in Names |-> NoGen]
  /\ faults = 0

-----------------------------------------------------------------------------
(* Operations begin and return.                                            *)

\* Store and PersistStatus get the caller's *Cluster with whatever credentials
\* it holds by then; SetEnv and the command rm --force look the name up first
Begin(o, n, g) ==
  /\ phase = "idle"
  /\ o = "Store" => g # NoGen
  /\ o \notin {"Store", "PersistStatus"} => g = NoGen
  /\ cmd' = [op |-> o, name |-> n, gen |-> g]
  /\ phase' = CASE o = "PersistStatus" -> "next"
                [] o \in {"SetEnv", "rmForce"} -> "load"
                [] OTHER -> "readKube"
  /\ pending' = IF o = "PersistStatus" THEN {Config(n)} ELSE {}
  /\ UNCHANGED <<fs, kube, file, done, stored, faults>>

\* the operation's local variables are gone with it
Forget ==
  /\ phase' = "idle"
  /\ cmd' = NoCommand
  /\ pending' = {}
  /\ kube' = EmptyKube
  /\ file' = Kube

Return(ok) ==
  /\ Forget
  /\ done' = [cmd |-> cmd, ok |-> ok]

\* an error: rm --force, whose Remove failed, calls it once more and drops the
\* error (rmIgnore); every other operation returns it
Failed ==
  CASE cmd.op = "rmForce" /\ phase # "load" ->
         /\ phase' = "readKube"
         /\ cmd' = [cmd EXCEPT !.op = "rmIgnore"]
         /\ pending' = {}
         /\ UNCHANGED <<kube, file, done>>
    [] cmd.op = "rmIgnore" -> Return(TRUE)
    [] OTHER -> Return(FALSE)

Removing == cmd.op \in {"Remove", "rmForce", "rmIgnore"}

\* GetAllClusterFromStore reads the config.json of every cluster: one that does
\* not parse fails the command, whatever cluster it names
Load ==
  /\ phase = "load"
  /\ IF /\ \A n \in Names : fs[Config(n)].st # "torn"
        /\ fs[Config(cmd.name)].st = "whole"
       THEN phase' = "readKube" /\ UNCHANGED <<cmd, kube, pending, file, done>>
       ELSE Failed
  /\ UNCHANGED <<fs, stored, faults>>

-----------------------------------------------------------------------------
(* The kubeconfig.                                                         *)

\* mutant of storeConfig: only an empty kubeconfig gets the entry
storeConfigOnlyFirst(config) ==
  IF \A n \in Names : config.entry[n] = NoGen
    THEN [config EXCEPT !.entry[cmd.name] = cmd.gen]
    ELSE config

\* an entry is added, an entry that is there is left as it is
storeConfig(config) ==
  IF config.entry[cmd.name] = NoGen
    THEN [config EXCEPT !.entry[cmd.name] = cmd.gen]
    ELSE config

\* mutant of deleteConfigByName: the other entries go
deleteConfigByNameInverted(config) ==
  [config EXCEPT !.entry = [n \in Names |-> IF n = cmd.name THEN @[n] ELSE NoGen]]

\* the entries under the name go; current-context stays
deleteConfigByName(config) == [config EXCEPT !.entry[cmd.name] = NoGen]

Edited(config) ==
  CASE Removing -> deleteConfigByName(config)
    [] cmd.op = "SetEnv" -> [config EXCEPT !.current = cmd.name]
    [] OTHER -> storeConfig(config)

\* a half-written yaml file may parse, as the entries that it got to
Readable ==
  CASE fs[Kube].st = "whole"  -> {fs[Kube].val}
    [] fs[Kube].st = "torn"   -> {[entry |-> [n \in Names |-> IF n \in S THEN fs[Kube].val.entry[n] ELSE NoGen],
                                   current |-> k] : S \in SUBSET Names,
                                                    k \in {NoGen, fs[Kube].val.current}}
    [] fs[Kube].st = "absent" -> IF cmd.op = "Store" THEN {EmptyKube} ELSE {}

\* the certificate a generation has for a pem file; "" is NoGen
Certificate(g, f) == IF g \in Bare \/ (g \in Keyless /\ f # "ca") THEN NoGen ELSE g

\* Store ranges over a map from the certificate to the file name: of the files
\* with an empty certificate only the last one of the literal is written
FilesToWrite ==
  {Kube, Config(cmd.name)} \cup
  {<<cmd.name, f>> : f \in {g \in PemName : g = "cert" \/ Certificate(cmd.gen, g) # NoGen}}

\* storeConfig reads the file when it is there, getConfigFromFile needs it; then
\* the edit, and what is to be written
ReadKube ==
  /\ phase = "readKube"
  /\ \/ /\ \E config \in Readable : kube' = Edited(config)
        /\ phase' = "next"
        /\ pending' = IF cmd.op = "Store" THEN FilesToWrite ELSE {Kube}
        /\ UNCHANGED <<cmd, file, done>>
     \/ /\ \/ fs[Kube].st = "torn"
           \/ fs[Kube].st = "absent" /\ cmd.op # "Store"
        /\ Failed
  /\ UNCHANGED <<fs, stored, faults>>

-----------------------------------------------------------------------------
(* Which file is written next, and utils.WriteToFile.                      *)

\* the kubeconfig first, config.json last, the pem files between them in the
\* order of a map
NextFile(f) ==
  /\ f \in pending
  /\ f # Kube => Kube \notin pending
  /\ f = Config(cmd.name) => pending = {f}

WriteNext ==
  /\ phase = "next"
  /\ \E f \in File :
       /\ NextFile(f)
       /\ file' = f
       /\ pending' = pending \ {f}
  /\ phase' = "stat"
  /\ UNCHANGED <<fs, cmd, kube, done, stored, faults>>

\* what the operation returns with once everything is written
AllWritten ==
  /\ phase = "next" /\ pending = {}
  /\ IF Removing
       THEN phase' = "removeAll" /\ UNCHANGED <<cmd, kube, pending, file, done, stored>>
       ELSE /\ Return(TRUE)
            /\ stored' = IF cmd.op = "Store" THEN [stored EXCEPT ![cmd.name] = cmd.gen]
                                             ELSE stored
  /\ UNCHANGED <<fs, faults>>

\* mutant of Data: the cluster's own files get its name
DataName == IF file = Kube THEN kube ELSE cmd.name

\* the bytes for the file
Data == IF file = Kube THEN kube
        ELSE IF file = Config(cmd.name) THEN cmd.gen
        ELSE Certificate(cmd.gen, file[2])

\* mutant of Fresh: an existing file is opened for writing as well
FreshAlways == TRUE

\* os.Stat: a file that is not there is written in place
Fresh == fs[file].st = "absent"

\* in place: open and truncate.  Otherwise a temporary file is made beside it
Stat ==
  /\ phase = "stat"
  /\ IF Fresh
       THEN /\ fs' = [fs EXCEPT ![file] = [st |-> "torn", val |-> Data]]
            /\ phase' = "open"
       ELSE phase' = "temp" /\ UNCHANGED fs
  /\ UNCHANGED <<cmd, kube, pending, file, done, stored, faults>>

Complete ==
  /\ phase = "open"
  /\ fs' = [fs EXCEPT ![file].st = "whole"]
  /\ phase' = "next"
  /\ UNCHANGED <<cmd, kube, pending, file, done, stored, faults>>

\* the temporary file is written and closed
WriteTemp ==
  /\ phase = "temp"
  /\ phase' = "unlink"
  /\ UNCHANGED <<fs, cmd, kube, pending, file, done, stored, faults>>

\* os.Remove(file): now the temporary file is the only copy
Unlink ==
  /\ phase = "unlink"
  /\ fs' = [fs EXCEPT ![file] = Absent(file)]
  /\ phase' = "rename"
  /\ UNCHANGED <<cmd, kube, pending, file, done, stored, faults>>

Rename ==
  /\ phase = "rename"
  /\ fs' = [fs EXCEPT ![file] = [st |-> "whole", val |-> Data]]
  /\ phase' = "next"
  /\ UNCHANGED <<cmd, kube, pending, file, done, stored, faults>>

\* a certificate is not base64
Undecodable ==
  /\ phase = "next" /\ cmd.op = "Store"
  /\ \E f \in PemName : NextFile(<<cmd.name, f>>) /\ Certificate(cmd.gen, f) # NoGen

\* the call of the phase fails and the operation with it.  A write in place leaves
\* what it wrote so far; the deferred os.Remove takes the temporary file away, and
\* when os.Rename was the call that failed, this was the only copy
StepFails ==
  /\ \/ "io" \in Faults
        /\ phase \in {"stat", "open", "temp", "unlink", "rename", "removeAll"}
     \/ "decode" \in Faults /\ Undecodable
  /\ Failed
  /\ faults < MaxFaults /\ faults' = faults + 1
  /\ UNCHANGED <<fs, stored>>

\* os.RemoveAll of the cluster's directory, one file after the other in any order
RemoveFile ==
  /\ phase = "removeAll"
  /\ \E f \in Dir(cmd.name) : fs[f].st # "absent" /\ fs' = [fs EXCEPT ![f] = Absent(f)]
  /\ UNCHANGED <<phase, cmd, kube, pending, file, done, stored, faults>>

RemoveAll ==
  /\ phase = "removeAll"
  /\ \A f \in Dir(cmd.name) : fs[f].st = "absent"
  /\ stored' = [stored EXCEPT ![cmd.name] = NoGen]
  /\ Return(TRUE)
  /\ UNCHANGED <<fs, faults>>

\* the command is killed; a temporary file stays, and nobody reads it again
Crash ==
  /\ "crash" \in Faults
  /\ phase # "idle"
  /\ Forget
  /\ done' = [cmd |-> NoCommand, ok |-> FALSE]
  /\ faults < MaxFaults /\ faults' = faults + 1
  /\ UNCHANGED <<fs, stored>>

-----------------------------------------------------------------------------
Next ==
  \/ \E o \in Operation \ {"rmIgnore"}, n \in Names, g \in Credentials : Begin(o, n, g)
  \/ Load \/ ReadKube
  \/ WriteNext \/ AllWritten \/ Stat \/ Complete \/ WriteTemp \/ Unlink \/ Rename
  \/ StepFails \/ RemoveFile \/ RemoveAll \/ Crash

Spec == Init /\ [][Next]_vars

-----------------------------------------------------------------------------
\* the command is between os.Remove and os.Rename of f
Window(f) == phase = "rename" /\ file = f

\* a complete f is on disk, under its name or as the temporary file of the command
Holds(f) == fs[f].st = "whole" \/ Window(f)

\* Where a file can be lost: wherever a command is killed or a call fails, a file that
\* was complete stays complete, but for one window of WriteToFile, between os.Remove
\* and os.Rename, and for the removal of its cluster.  No write in place ever meets a
\* file that is there, and no failing call takes another file along.
NeverLost ==
  [][\A f \in File : Holds(f) /\ ~Holds(f)' =>
       \/ Window(f)
       \/ phase = "removeAll" /\ f \in Dir(cmd.name)]_vars

\* Remove leaves neither an entry in the kubeconfig nor a file, also after
\* commands that were killed half way.
RemoveForgets ==
  phase = "idle" /\ done.ok /\ done.cmd.op \in {"Remove", "rmForce"} =>
    /\ fs[Kube].val.entry[done.cmd.name] = NoGen
    /\ \A f \in Dir(done.cmd.name) : fs[f].st = "absent"

\* Without faults, a stored cluster stays usable: its entry survives the operations
\* of the other clusters, which rewrite the shared kubeconfig, and each of its
\* certificates is in its pem file, although Store goes through a map that the
\* certificates are the keys of.
StoredUsable ==
  phase = "idle" /\ faults = 0 =>
    \A n \in Names : stored[n] # NoGen =>
      /\ fs[Kube].st = "whole" /\ fs[Kube].val.entry[n] # NoGen
      /\ \A f \in PemName : Certificate(stored[n], f) # NoGen =>
           fs[<<n, f>>] = [st |-> "whole", val |-> stored[n]]
=============================================================================
