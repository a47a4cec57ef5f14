--------------------------- MODULE CLIStoreProofs ---------------------------
(***************************************************************************)
(* RemoveForgets, StoredUsable and NeverLost for any clusters, credentials *)
(* and number of faults.                                                   *)
(***************************************************************************)
EXTENDS CLIStore, TLAPS

\* the phases of WriteToFile, and all phases after the kubeconfig was read
Writing == {"stat", "open", "temp", "unlink", "rename"}
Late    == Writing \cup {"next", "removeAll"}

\* the files that the operation writes, and the bytes for each
Targets ==
  CASE cmd.op = "PersistStatus" -> {Config(cmd.name)}
    [] cmd.op = "Store" -> FilesToWrite
    [] OTHER -> {Kube}

DataOf(f) ==
  IF f = Kube THEN kube
  ELSE IF f = Config(cmd.name) THEN cmd.gen
  ELSE Certificate(cmd.gen, f[2])

Whole(v) == [st |-> "whole", val |-> v]

\* the files are records
DiskInv == fs = [f \in File |-> [st |-> fs[f].st, val |-> fs[f].val]]

\* which command is in which phase
CmdInv ==
  /\ phase # "idle" => cmd.op \in Operation /\ cmd.name \in Names
  /\ phase # "idle" /\ cmd.op = "Store" => cmd.gen # NoGen
  /\ phase = "load" => cmd.op \in {"SetEnv", "rmForce"}
  /\ phase = "readKube" => cmd.op # "PersistStatus"
  /\ phase = "removeAll" => Removing /\ pending = {}

\* what the command has written so far is on disk, and nothing else is
WriteInv ==
  /\ phase \in Late => pending \subseteq Targets
  /\ phase \in Writing => file \in Targets /\ file \notin pending
  /\ phase \in Late =>
       \A f \in Targets \ pending : (phase \in Writing /\ f = file) \/ fs[f] = Whole(DataOf(f))
  /\ phase = "open" => fs[file] = [st |-> "torn", val |-> DataOf(file)]

\* the kubeconfig that is about to be written has lost the entry of a cluster that is
\* removed, and no other
KubeInv ==
  phase \in Late /\ cmd.op # "PersistStatus" =>
    /\ Removing => kube.entry[cmd.name] = NoGen
    /\ cmd.op = "Store" => kube.entry[cmd.name] # NoGen
    /\ faults = 0 => \A n \in Names :
         stored[n] # NoGen /\ ~(Removing /\ n = cmd.name) => kube.entry[n] # NoGen

\* without faults every stored cluster is usable, but for the cluster and the file that
\* the command is at
FaultFreeInv ==
  faults = 0 =>
    /\ \A f \in File : fs[f].st = "torn" => phase = "open" /\ file = f
    /\ \A n \in Names : stored[n] # NoGen =>
         /\ fs[Kube].st = "whole" \/ (phase = "rename" /\ file = Kube)
         /\ \/ fs[Kube].st # "whole"
            \/ fs[Kube].val.entry[n] # NoGen
            \/ phase \in Late /\ Removing /\ n = cmd.name
         /\ \A f \in PemName : Certificate(stored[n], f) # NoGen =>
              \/ fs[<<n, f>>] = Whole(stored[n])
              \/ phase \in Late /\ cmd.op = "Store" /\ n = cmd.name
              \/ phase = "removeAll" /\ n = cmd.name

\* The inductive invariant.
StoreInv ==
  TypeOK /\ DiskInv /\ CmdInv /\ WriteInv /\ KubeInv /\ FaultFreeInv /\ RemoveForgets
-----------------------------------------------------------------------------
\* The kubeconfig and the files of the clusters are all different.
LEMMA FilesDiffer ==
  /\ Kube \in File
  /\ \A n \in Names :
       /\ Config(n) \in File /\ Config(n) # Kube
       /\ Kube \notin Dir(n)
       /\ \A f \in PemName :
            /\ <<n, f>> \in File /\ <<n, f>> # Kube /\ <<n, f>> # Config(n)
            /\ <<n, f>>[2] = f
            /\ \A m \in Names : m # n => <<n, f>> \notin Dir(m)
  <1>1. "kube" \notin Names
    BY CLIStoreAssumption
  <1>2. \A n \in Names : Dir(n) \subseteq File
    BY DEF File
  <1>3. \A n \in Names : Config(n) \in Dir(n) /\ \A f \in PemName : <<n, f>> \in Dir(n)
    BY DEF Dir, Pem
  <1>4. \A n \in Names : Config(n) # Kube
    BY <1>1 DEF Config, Kube
  <1>5. \A n \in Names, f \in PemName : <<n, f>> # Kube /\ <<n, f>> # Config(n) /\ <<n, f>>[2] = f
    BY <1>1 DEF Config, Kube, PemName
  <1>6. \A n \in Names : Kube \notin Dir(n)
    BY <1>1 DEF Dir, Pem, Config, Kube
  <1>7. \A n, m \in Names, f \in PemName : m # n => <<n, f>> \notin Dir(m)
    BY DEF Dir, Pem, Config
  <1>8. Kube \in File
    BY DEF File
  <1> QED
    BY <1>2, <1>3, <1>4, <1>5, <1>6, <1>7, <1>8

\* What the operation writes are files, and each gets content of its kind.
LEMMA TargetsAreFiles ==
  ASSUME TypeOK, CmdInv, phase # "idle"
  PROVE  Targets \subseteq File /\ \A f \in File : DataOf(f) \in Content(f)
  <1>1. cmd.name \in Names /\ cmd.gen \in Credentials /\ kube \in KubeConfig
    BY DEF TypeOK, CmdInv, Command
  <1>2. FilesToWrite \subseteq File
    BY <1>1, FilesDiffer DEF FilesToWrite
  <1>3. Targets \subseteq File
    BY <1>1, <1>2, FilesDiffer DEF Targets
  <1>4. \A f : Certificate(cmd.gen, f) \in Credentials
    BY <1>1 DEF Certificate, Credentials
  <1>5. \A f \in File : DataOf(f) \in Content(f)
    BY <1>1, <1>4 DEF DataOf, Content
  <1> QED
    BY <1>3, <1>5

\* The edits of the kubeconfig give a kubeconfig.
LEMMA EditedType ==
  ASSUME TypeOK, CmdInv, phase # "idle", NEW config \in Readable
  PROVE  /\ config \in KubeConfig /\ Edited(config) \in KubeConfig
         /\ Removing => Edited(config).entry[cmd.name] = NoGen
         /\ cmd.op = "Store" => Edited(config).entry[cmd.name] # NoGen
         /\ \A n \in Names : config.entry[n] # NoGen /\ ~(Removing /\ n = cmd.name) =>
              Edited(config).entry[n] # NoGen
  <1>1. cmd.name \in Names /\ cmd.gen \in Credentials /\ (cmd.op = "Store" => cmd.gen # NoGen)
    BY DEF TypeOK, CmdInv, Command
  <1>2. EmptyKube \in KubeConfig
    BY DEF EmptyKube, KubeConfig, Credentials
  <1>3. fs[Kube].val \in KubeConfig /\ fs[Kube].st \in {"absent", "torn", "whole"}
    BY FilesDiffer DEF TypeOK, Content
  <1>4. config \in KubeConfig
    <2>1. CASE fs[Kube].st = "torn"
      <3> DEFINE Part(S, k) ==
            [entry |-> [n \in Names |-> IF n \in S THEN fs[Kube].val.entry[n] ELSE NoGen],
             current |-> k]
      <3>0. Readable = {Part(S, k) : S \in SUBSET Names, k \in {NoGen, fs[Kube].val.current}}
        BY <2>1 DEF Readable
      <3> HIDE DEF Part
      <3>1. PICK S \in SUBSET Names, k \in {NoGen, fs[Kube].val.current} : config = Part(S, k)
        BY <3>0
      <3>2. [n \in Names |-> IF n \in S THEN fs[Kube].val.entry[n] ELSE NoGen]
              \in [Names -> Credentials]
        BY <1>3 DEF KubeConfig, Credentials
      <3> QED
        BY <1>3, <3>1, <3>2 DEF KubeConfig, Part
    <2>2. CASE fs[Kube].st # "torn"
      BY <1>2, <1>3, <2>2 DEF Readable
    <2> QED
      BY <2>1, <2>2
  <1>5. CASE Removing
    <2>1. Edited(config) = [config EXCEPT !.entry[cmd.name] = NoGen]
      BY <1>5 DEF Edited, deleteConfigByName, Removing
    <2> QED
      BY <1>1, <1>4, <1>5, <2>1 DEF KubeConfig, Credentials, Removing
  <1>6. CASE ~Removing /\ cmd.op = "SetEnv"
    <2>1. Edited(config) = [config EXCEPT !.current = cmd.name]
      BY <1>6 DEF Edited, Removing
    <2> QED
      BY <1>1, <1>4, <1>6, <2>1 DEF KubeConfig
  <1>7. CASE ~Removing /\ cmd.op # "SetEnv"
    <2>1. Edited(config) = storeConfig(config)
      BY <1>7 DEF Edited
    <2>2. CASE config.entry[cmd.name] = NoGen
      <3>1. Edited(config) = [config EXCEPT !.entry[cmd.name] = cmd.gen]
        BY <2>1, <2>2 DEF storeConfig
      <3> QED
        BY <1>1, <1>4, <1>7, <2>2, <3>1 DEF KubeConfig
    <2>3. CASE config.entry[cmd.name] # NoGen
      BY <1>4, <1>7, <2>1, <2>3 DEF storeConfig
    <2> QED
      BY <2>2, <2>3
  <1> QED
    BY <1>4, <1>5, <1>6, <1>7

-----------------------------------------------------------------------------
\* the part of the state that has nothing to do with the disk
LocalType ==
  /\ phase \in Phase /\ cmd \in Command /\ kube \in KubeConfig
  /\ pending \subseteq File /\ file \in File
  /\ done \in [cmd : Command, ok : BOOLEAN]

DiskType ==
  /\ DOMAIN fs = File
  /\ \A f \in File : /\ fs[f].st \in {"absent", "torn", "whole"}
                     /\ fs[f].val \in Content(f)
  /\ DiskInv

\* Ending an operation is well typed.
LEMMA FailedType ==
  ASSUME LocalType, Failed \/ \E ok \in BOOLEAN : Return(ok)
  PROVE  LocalType'
  <1>1. NoCommand \in Command
    BY DEF NoCommand, Command, Credentials
  <1>2. EmptyKube \in KubeConfig
    BY DEF EmptyKube, KubeConfig, Credentials
  <1>3. ASSUME NEW ok \in BOOLEAN, Return(ok) PROVE LocalType'
    BY <1>1, <1>2, <1>3, FilesDiffer DEF Return, Forget, LocalType, Phase
  <1>4. CASE /\ phase' = "readKube"
             /\ cmd' = [cmd EXCEPT !.op = "rmIgnore"]
             /\ pending' = {}
             /\ UNCHANGED <<kube, file, done>>
    BY <1>4 DEF LocalType, Phase, Command, Operation
  <1> QED
    BY <1>3, <1>4 DEF Failed

\* Writing a file leaves records on the disk.
LEMMA WriteType ==
  ASSUME DiskType, NEW f \in File, NEW st \in {"absent", "torn", "whole"}, NEW v \in Content(f),
         fs' = [fs EXCEPT ![f] = [st |-> st, val |-> v]]
  PROVE  /\ DiskType' /\ fs'[f] = [st |-> st, val |-> v]
         /\ \A g \in File : g # f => fs'[g] = fs[g]
  <1>1. /\ fs'[f] = [st |-> st, val |-> v] /\ DOMAIN fs' = File
        /\ \A g \in File : g # f => fs'[g] = fs[g]
    BY DEF DiskType, DiskInv
  <1>2. \A g \in File : fs'[g].st \in {"absent", "torn", "whole"} /\ fs'[g].val \in Content(g)
    BY <1>1 DEF DiskType
  <1>3. \A g \in File : fs'[g] = [st |-> fs'[g].st, val |-> fs'[g].val]
    <2>1. \A g \in File : fs[g] = [st |-> fs[g].st, val |-> fs[g].val]
      BY DEF DiskType, DiskInv
    <2> QED
      BY <1>1, <2>1
  <1>4. fs' = [g \in File |-> fs'[g]]
    BY DEF DiskType, DiskInv
  <1>5. DiskInv'
    BY <1>3, <1>4 DEF DiskInv
  <1> QED
    BY <1>1, <1>2, <1>5 DEF DiskType, Content

\* Complete makes the file whole and keeps its content.
LEMMA CompleteWrites ==
  ASSUME DiskType, LocalType, Complete
  PROVE  fs' = [fs EXCEPT ![file] = Whole(fs[file].val)]
  <1>1. file \in File /\ fs[file] = [st |-> fs[file].st, val |-> fs[file].val]
    BY DEF DiskType, DiskInv, LocalType
  <1>2. [fs[file] EXCEPT !.st = "whole"] = Whole(fs[file].val)
    BY <1>1 DEF Whole
  <1>3. fs' = [fs EXCEPT ![file] = [fs[file] EXCEPT !.st = "whole"]]
    BY DEF Complete
  <1> QED
    BY <1>2, <1>3

\* The content of an absent file.
LEMMA AbsentType ==
  \A f \in File :
    Absent(f) = [st |-> "absent", val |-> Absent(f).val] /\ Absent(f).val \in Content(f)
  BY DEF Absent, Content, EmptyKube, KubeConfig, Credentials

\* A write changes one file.
LEMMA OneFile ==
  ASSUME DiskType, NEW f \in File, NEW r, fs' = [fs EXCEPT ![f] = r]
  PROVE  fs'[f] = r /\ \A g \in File : g # f => fs'[g] = fs[g]
  BY DEF DiskType

\* os.RemoveAll takes files of the cluster only.
LEMMA FileRemoved ==
  ASSUME CmdInv, RemoveFile
  PROVE  /\ phase = "removeAll" /\ cmd.name \in Names
         /\ \E f \in File : f \in Dir(cmd.name) /\ fs' = [fs EXCEPT ![f] = Absent(f)]
  <1>1. phase = "removeAll" /\ cmd.name \in Names
    BY DEF RemoveFile, CmdInv
  <1>2. Dir(cmd.name) \subseteq File
    BY <1>1 DEF File
  <1> QED
    BY <1>1, <1>2 DEF RemoveFile

\* Every state is well typed.
LEMMA TypeStep ==
  ASSUME TypeOK, DiskInv, CmdInv, WriteInv, [Next]_vars
  PROVE  TypeOK' /\ DiskInv'
  <1>1. LocalType /\ DiskType
    BY DEF TypeOK, LocalType, DiskType
  <1>2. /\ stored \in [Names -> Credentials] /\ faults \in 0..MaxFaults
        /\ MaxFaults \in Nat
    BY CLIStoreAssumption DEF TypeOK
  <1> DEFINE Rest == stored \in [Names -> Credentials] /\ faults \in 0..MaxFaults
  <1>3. ASSUME LocalType', DiskType', Rest' PROVE TypeOK' /\ DiskInv'
    BY <1>3 DEF TypeOK, LocalType, DiskType
  <1>4. ASSUME UNCHANGED fs PROVE DiskType'
    BY <1>1, <1>4 DEF DiskType, DiskInv, Content
  <1>5. ASSUME UNCHANGED <<stored, faults>> PROVE Rest'
    BY <1>2, <1>5
  <1> HIDE DEF Rest
  <1>6. phase # "idle" => Targets \subseteq File /\ \A f \in File : DataOf(f) \in Content(f)
    BY TargetsAreFiles
  <1>7. phase \in Writing => Data = DataOf(file)
    BY DEF Data, DataOf
  <1>8. ASSUME NEW o \in Operation \ {"rmIgnore"}, NEW n \in Names, NEW g \in Credentials,
               Begin(o, n, g)
        PROVE  TypeOK' /\ DiskInv'
    <2>1. LocalType'
      BY <1>1, <1>8, FilesDiffer DEF Begin, LocalType, Phase, Command, Operation
    <2> QED
      BY <1>3, <1>4, <1>5, <1>8, <2>1 DEF Begin
  <1>9. CASE Load
    <2>1. LocalType'
      BY <1>1, <1>9, FailedType DEF Load, LocalType, Phase
    <2> QED
      BY <1>3, <1>4, <1>5, <1>9, <2>1 DEF Load
  <1>10. CASE ReadKube
    <2>1. CASE Failed
      BY <1>1, <1>3, <1>4, <1>5, <1>10, <2>1, FailedType DEF ReadKube
    <2>2. CASE ~Failed
      <3>1. phase = "readKube" /\ cmd.op # "PersistStatus"
        BY <1>10 DEF ReadKube, CmdInv
      <3>2. kube' \in KubeConfig
        BY <1>10, <2>2, <3>1, EditedType DEF ReadKube
      <3>3. pending' \subseteq File
        BY <1>6, <1>10, <2>2, <3>1, FilesDiffer DEF ReadKube, Targets
      <3>4. phase' = "next" /\ UNCHANGED <<cmd, file, done>>
        BY <1>10, <2>2 DEF ReadKube
      <3> QED
        BY <1>1, <1>3, <1>4, <1>5, <1>10, <3>2, <3>3, <3>4 DEF ReadKube, LocalType, Phase
    <2> QED
      BY <2>1, <2>2
  <1>11. CASE WriteNext
    <2>1. LocalType'
      BY <1>1, <1>11 DEF WriteNext, LocalType, Phase
    <2> QED
      BY <1>3, <1>4, <1>5, <1>11, <2>1 DEF WriteNext
  <1>12. CASE AllWritten
    <2>1. LocalType'
      BY <1>1, <1>12, FailedType DEF AllWritten, LocalType, Phase
    <2>2. Rest'
      <3>1. cmd.name \in Names /\ cmd.gen \in Credentials
        BY <1>1, <1>12 DEF AllWritten, CmdInv, LocalType, Command
      <3>2. stored' \in [Names -> Credentials]
        BY <1>2, <1>12, <3>1 DEF AllWritten
      <3> QED
        BY <1>2, <1>12, <3>2 DEF Rest, AllWritten
    <2> QED
      BY <1>3, <1>4, <1>12, <2>1, <2>2 DEF AllWritten
  <1>13. CASE Stat
    <2>1. LocalType' /\ phase = "stat" /\ file \in File
      BY <1>1, <1>13 DEF Stat, LocalType, Phase
    <2>2. Data \in Content(file)
      BY <1>6, <1>7, <2>1 DEF Writing
    <2>3. DiskType'
      BY <1>1, <1>4, <1>13, <2>1, <2>2, WriteType DEF Stat
    <2> QED
      BY <1>3, <1>5, <1>13, <2>1, <2>3 DEF Stat
  <1>14. CASE Complete
    <2>1. LocalType' /\ phase = "open" /\ file \in File
      BY <1>1, <1>14 DEF Complete, LocalType, Phase
    <2>2. fs' = [fs EXCEPT ![file] = Whole(fs[file].val)]
      BY <1>1, <1>14, CompleteWrites
    <2>3. DiskType'
      BY <1>1, <2>1, <2>2, WriteType DEF DiskType, Whole
    <2> QED
      BY <1>3, <1>5, <1>14, <2>1, <2>3 DEF Complete
  <1>15. CASE WriteTemp
    <2>1. LocalType'
      BY <1>1, <1>15 DEF WriteTemp, LocalType, Phase
    <2> QED
      BY <1>3, <1>4, <1>5, <1>15, <2>1 DEF WriteTemp
  <1>16. CASE Unlink
    <2>1. LocalType' /\ file \in File
      BY <1>1, <1>16 DEF Unlink, LocalType, Phase
    <2>2. DiskType'
      BY <1>1, <1>16, <2>1, AbsentType, WriteType DEF Unlink
    <2> QED
      BY <1>3, <1>5, <1>16, <2>1, <2>2 DEF Unlink
  <1>17. CASE Rename
    <2>1. LocalType' /\ phase = "rename" /\ file \in File
      BY <1>1, <1>17 DEF Rename, LocalType, Phase
    <2>2. Data \in Content(file)
      BY <1>6, <1>7, <2>1 DEF Writing
    <2>3. DiskType'
      BY <1>1, <1>17, <2>1, <2>2, WriteType DEF Rename
    <2> QED
      BY <1>3, <1>5, <1>17, <2>1, <2>3 DEF Rename
  <1>18. CASE StepFails
    <2>1. LocalType' /\ Rest'
      BY <1>1, <1>2, <1>18, FailedType DEF StepFails, Rest
    <2> QED
      BY <1>3, <1>4, <1>18, <2>1 DEF StepFails
  <1>19. CASE RemoveAll
    <2>1. LocalType' /\ Rest'
      BY <1>1, <1>2, <1>19, FailedType DEF RemoveAll, Rest, Credentials
    <2> QED
      BY <1>3, <1>4, <1>19, <2>1 DEF RemoveAll
  <1>20. CASE Crash
    <2>1. LocalType'
      <3>1. NoCommand \in Command
        BY DEF NoCommand, Command, Credentials
      <3>2. EmptyKube \in KubeConfig
        BY DEF EmptyKube, KubeConfig, Credentials
      <3> QED
        BY <1>20, <3>1, <3>2, FilesDiffer DEF Crash, Forget, LocalType, Phase
    <2>2. Rest'
      BY <1>1, <1>2, <1>20 DEF Crash, Rest, LocalType
    <2> QED
      BY <1>3, <1>4, <1>20, <2>1, <2>2 DEF Crash
  <1>21. CASE UNCHANGED vars
    <2>1. LocalType'
      BY <1>1, <1>21 DEF LocalType, vars
    <2> QED
      BY <1>3, <1>4, <1>5, <1>21, <2>1 DEF vars
  <1>22. CASE RemoveFile
    <2>1. LocalType'
      BY <1>1, <1>22 DEF RemoveFile, LocalType
    <2>2. PICK f \in File : fs' = [fs EXCEPT ![f] = Absent(f)]
      BY <1>22, FileRemoved
    <2>3. DiskType'
      BY <1>1, <2>2, AbsentType, WriteType
    <2> QED
      BY <1>3, <1>5, <1>22, <2>1, <2>3 DEF RemoveFile
  <1> QED
    BY <1>8, <1>9, <1>10, <1>11, <1>12, <1>13, <1>14, <1>15, <1>16, <1>17, <1>18, <1>19, <1>20,
       <1>21, <1>22 DEF Next

-----------------------------------------------------------------------------
\* The two ways in which an operation goes on after an error.
LEMMA FailedOutcome ==
  ASSUME Failed, TypeOK, CmdInv, phase # "idle"
  PROVE  \/ /\ phase' = "readKube" /\ cmd'.op = "rmIgnore" /\ cmd'.name = cmd.name
            /\ cmd.name \in Names
         \/ phase' = "idle" /\ done'.cmd = cmd /\ (done'.ok => cmd.op = "rmIgnore")
  <1>1. CASE cmd.op = "rmForce" /\ phase # "load"
    BY <1>1 DEF Failed, TypeOK, Command, CmdInv
  <1>2. CASE ~(cmd.op = "rmForce" /\ phase # "load")
    BY <1>2 DEF Failed, Return, Forget
  <1> QED
    BY <1>1, <1>2

\* Phases belong to their commands.
LEMMA CmdKept ==
  ASSUME TypeOK, CmdInv, [Next]_vars
  PROVE  CmdInv'
  <1> USE DEF CmdInv
  <1>1. ASSUME NEW o \in Operation \ {"rmIgnore"}, NEW n \in Names, NEW g \in Credentials,
               Begin(o, n, g)
        PROVE  CmdInv'
    <2>1. cmd'.op = o /\ cmd'.name = n /\ cmd'.gen = g /\ (o = "Store" => g # NoGen)
      BY <1>1 DEF Begin
    <2>2. /\ phase' \in {"next", "load", "readKube"}
          /\ phase' = "load" => o \in {"SetEnv", "rmForce"}
          /\ phase' = "readKube" => o # "PersistStatus"
      BY <1>1 DEF Begin
    <2> QED
      BY <2>1, <2>2
  <1>2. ASSUME Failed, phase # "idle" PROVE CmdInv'
    BY <1>2, FailedOutcome DEF Operation
  <1>3. CASE Load
    BY <1>2, <1>3 DEF Load
  <1>4. CASE ReadKube
    BY <1>2, <1>4 DEF ReadKube
  <1>5. CASE StepFails
    BY <1>2, <1>5 DEF StepFails, Undecodable
  <1>6. CASE WriteNext \/ Stat \/ Complete \/ WriteTemp \/ Unlink \/ Rename \/ RemoveFile
    BY <1>6 DEF WriteNext, Stat, Complete, WriteTemp, Unlink, Rename, RemoveFile, Removing
  <1>7. CASE AllWritten
    BY <1>7 DEF AllWritten, Return, Forget, Removing
  <1>8. CASE RemoveAll \/ Crash
    BY <1>8 DEF RemoveAll, Crash, Return, Forget
  <1>9. CASE UNCHANGED vars
    BY <1>9 DEF vars, Removing
  <1> QED
    BY <1>1, <1>3, <1>4, <1>5, <1>6, <1>7, <1>8, <1>9 DEF Next

\* What has been written stays as it was written.
LEMMA WriteKept ==
  ASSUME TypeOK, DiskInv, CmdInv, WriteInv, [Next]_vars
  PROVE  WriteInv'
  <1>1. LocalType /\ DiskType
    BY DEF TypeOK, LocalType, DiskType
  <1>2. phase # "idle" => Targets \subseteq File /\ \A f \in File : DataOf(f) \in Content(f)
    BY TargetsAreFiles
  <1>3. ASSUME UNCHANGED <<cmd, kube>> PROVE Targets' = Targets /\ \A f : DataOf(f)' = DataOf(f)
    BY <1>3 DEF Targets, FilesToWrite, DataOf
  <1>4. ASSUME phase' \notin Late PROVE WriteInv'
    BY <1>4 DEF WriteInv, Late, Writing
  <1>5. Data = DataOf(file) /\ file \in File
    BY <1>1 DEF Data, DataOf, LocalType
  <1>6. ASSUME Failed, phase # "idle" PROVE WriteInv'
    BY <1>4, <1>6, FailedOutcome DEF Late, Writing
  <1>7. ASSUME NEW o \in Operation \ {"rmIgnore"}, NEW n \in Names, NEW g \in Credentials,
               Begin(o, n, g)
        PROVE  WriteInv'
    <2>1. CASE o = "PersistStatus"
      <3>1. phase' = "next" /\ pending' = {Config(n)} /\ Targets' = {Config(n)}
        BY <1>7, <2>1 DEF Begin, Targets
      <3> QED
        BY <3>1 DEF WriteInv, Writing
    <2>2. CASE o # "PersistStatus"
      BY <1>4, <1>7, <2>2 DEF Begin, Late, Writing
    <2> QED
      BY <2>1, <2>2
  <1>8. CASE Load
    BY <1>4, <1>6, <1>8 DEF Load, Late, Writing
  <1>9. CASE ReadKube
    <2>1. CASE Failed
      BY <1>6, <1>9, <2>1 DEF ReadKube
    <2>2. CASE ~Failed
      <3>1. /\ phase' = "next" /\ UNCHANGED cmd /\ cmd.op # "PersistStatus"
            /\ pending' = IF cmd.op = "Store" THEN FilesToWrite ELSE {Kube}
        BY <1>9, <2>2 DEF ReadKube, CmdInv
      <3>2. Targets' = pending'
        BY <3>1 DEF Targets, FilesToWrite
      <3> QED
        BY <3>1, <3>2 DEF WriteInv, Writing
    <2> QED
      BY <2>1, <2>2
  <1>10. CASE WriteNext
    <2>1. PICK f \in pending : file' = f /\ pending' = pending \ {f}
      BY <1>10 DEF WriteNext, NextFile
    <2>2. phase = "next" /\ phase' = "stat" /\ UNCHANGED <<cmd, kube, fs>>
      BY <1>10 DEF WriteNext
    <2> QED
      BY <1>3, <2>1, <2>2 DEF WriteInv, Late, Writing
  <1>11. CASE AllWritten
    <2>1. CASE Removing
      <3>1. phase = "next" /\ phase' = "removeAll" /\ UNCHANGED <<cmd, kube, fs, pending>>
        BY <1>11, <2>1 DEF AllWritten
      <3> QED
        BY <1>3, <3>1 DEF WriteInv, Late, Writing
    <2>2. CASE ~Removing
      BY <1>4, <1>11, <2>2 DEF AllWritten, Return, Forget, Late, Writing
    <2> QED
      BY <2>1, <2>2
  <1>12. CASE Stat
    <2>1. phase = "stat" /\ UNCHANGED <<cmd, kube, pending, file>>
      BY <1>12 DEF Stat
    <2>2. CASE Fresh
      <3>1. phase' = "open" /\ fs' = [fs EXCEPT ![file] = [st |-> "torn", val |-> Data]]
        BY <1>12, <2>2 DEF Stat
      <3>2. fs'[file] = [st |-> "torn", val |-> Data] /\ \A g \in File : g # file => fs'[g] = fs[g]
        BY <1>1, <1>2, <1>5, <2>1, <3>1, OneFile
      <3> QED
        BY <1>2, <1>3, <1>5, <2>1, <3>1, <3>2 DEF WriteInv, Late, Writing
    <2>3. CASE ~Fresh
      <3>1. phase' = "temp" /\ UNCHANGED fs
        BY <1>12, <2>3 DEF Stat
      <3> QED
        BY <1>3, <2>1, <3>1 DEF WriteInv, Late, Writing
    <2> QED
      BY <2>2, <2>3
  <1>13. CASE Complete
    <2>1. phase = "open" /\ phase' = "next" /\ UNCHANGED <<cmd, kube, pending, file>>
      BY <1>13 DEF Complete
    <2>2. fs[file] = [st |-> "torn", val |-> DataOf(file)]
      BY <2>1 DEF WriteInv
    <2>3. fs' = [fs EXCEPT ![file] = [st |-> "whole", val |-> DataOf(file)]]
      BY <1>1, <1>13, <2>2, CompleteWrites DEF Whole
    <2>4. fs'[file] = Whole(DataOf(file)) /\ \A g \in File : g # file => fs'[g] = fs[g]
      BY <1>1, <1>2, <1>5, <2>1, <2>3, WriteType DEF Whole
    <2> QED
      BY <1>2, <1>3, <2>1, <2>4 DEF WriteInv, Late, Writing
  <1>14. CASE WriteTemp
    <2>1. phase = "temp" /\ phase' = "unlink" /\ UNCHANGED <<cmd, kube, pending, file, fs>>
      BY <1>14 DEF WriteTemp
    <2> QED
      BY <1>3, <2>1 DEF WriteInv, Late, Writing
  <1>15. CASE Unlink
    <2>1. /\ phase = "unlink" /\ phase' = "rename" /\ UNCHANGED <<cmd, kube, pending, file>>
          /\ fs' = [fs EXCEPT ![file] = Absent(file)]
      BY <1>15 DEF Unlink
    <2>2. \A g \in File : g # file => fs'[g] = fs[g]
      BY <1>1, <1>5, <2>1, AbsentType, WriteType
    <2> QED
      BY <1>2, <1>3, <2>1, <2>2 DEF WriteInv, Late, Writing
  <1>16. CASE Rename
    <2>1. /\ phase = "rename" /\ phase' = "next" /\ UNCHANGED <<cmd, kube, pending, file>>
          /\ fs' = [fs EXCEPT ![file] = [st |-> "whole", val |-> DataOf(file)]]
      BY <1>5, <1>16 DEF Rename
    <2>2. fs'[file] = Whole(DataOf(file)) /\ \A g \in File : g # file => fs'[g] = fs[g]
      BY <1>1, <1>2, <1>5, <2>1, WriteType DEF Whole
    <2> QED
      BY <1>2, <1>3, <2>1, <2>2 DEF WriteInv, Late, Writing
  <1>17. CASE StepFails
    BY <1>6, <1>17 DEF StepFails, Undecodable
  <1>18. CASE RemoveAll \/ Crash
    BY <1>4, <1>18 DEF RemoveAll, Crash, Return, Forget, Late, Writing
  <1>19. CASE UNCHANGED vars
    BY <1>3, <1>19 DEF vars, WriteInv
  <1>20. CASE RemoveFile
    <2>1. PICK f \in File : f \in Dir(cmd.name) /\ fs' = [fs EXCEPT ![f] = Absent(f)]
      BY <1>20, FileRemoved
    <2>2. phase = "removeAll" /\ Removing /\ UNCHANGED <<phase, cmd, kube, pending, file>>
      BY <1>20 DEF RemoveFile, CmdInv
    <2>3. Targets = {Kube} /\ fs'[Kube] = fs[Kube]
      BY <1>1, <1>20, <2>1, <2>2, FileRemoved, FilesDiffer, OneFile DEF Targets, Removing
    <2> QED
      BY <1>3, <2>2, <2>3 DEF WriteInv, Late, Writing
  <1> QED
    BY <1>7, <1>8, <1>9, <1>10, <1>11, <1>12, <1>13, <1>14, <1>15, <1>16, <1>17, <1>18, <1>19,
       <1>20
       DEF Next

\* The kubeconfig in memory keeps the entries of the stored clusters.
LEMMA KubeKept ==
  ASSUME TypeOK, CmdInv, KubeInv, FaultFreeInv, [Next]_vars
  PROVE  KubeInv'
  <1>1. ASSUME phase' \notin Late PROVE KubeInv'
    BY <1>1 DEF KubeInv
  <1>2. ASSUME Failed, phase # "idle" PROVE KubeInv'
    BY <1>1, <1>2, FailedOutcome DEF Late, Writing
  <1>3. ASSUME phase \in Late, UNCHANGED <<cmd, kube, stored, faults>> PROVE KubeInv'
    BY <1>3 DEF KubeInv, Removing
  <1>4. ASSUME NEW o \in Operation \ {"rmIgnore"}, NEW n \in Names, NEW g \in Credentials,
               Begin(o, n, g)
        PROVE  KubeInv'
    BY <1>4 DEF Begin, KubeInv, Late, Writing
  <1>5. CASE Load
    BY <1>1, <1>2, <1>5 DEF Load, Late, Writing
  <1>6. CASE ReadKube
    <2>1. CASE Failed
      BY <1>2, <1>6, <2>1 DEF ReadKube
    <2>2. CASE ~Failed
      <3>1. phase = "readKube" /\ UNCHANGED <<cmd, stored, faults>>
        BY <1>6, <2>2 DEF ReadKube
      <3>2. PICK config \in Readable : kube' = Edited(config)
        BY <1>6, <2>2 DEF ReadKube
      <3>3. /\ Removing => kube'.entry[cmd.name] = NoGen
            /\ cmd.op = "Store" => kube'.entry[cmd.name] # NoGen
            /\ \A n \in Names : config.entry[n] # NoGen /\ ~(Removing /\ n = cmd.name) =>
                 kube'.entry[n] # NoGen
        BY <3>1, <3>2, EditedType
      <3>4. faults = 0 => \A n \in Names : stored[n] # NoGen => config.entry[n] # NoGen
        BY <3>1, <3>2 DEF FaultFreeInv, Readable, Late, Writing
      <3> QED
        BY <3>1, <3>3, <3>4 DEF KubeInv, Removing
    <2> QED
      BY <2>1, <2>2
  <1>7. CASE WriteNext \/ Stat \/ Complete \/ WriteTemp \/ Unlink \/ Rename \/ RemoveFile
    BY <1>3, <1>7 DEF WriteNext, Stat, Complete, WriteTemp, Unlink, Rename, RemoveFile, Late,
                     Writing
  <1>8. CASE AllWritten
    BY <1>1, <1>3, <1>8 DEF AllWritten, Return, Forget, Late, Writing
  <1>9. CASE StepFails
    BY <1>2, <1>9 DEF StepFails, Undecodable
  <1>10. CASE RemoveAll \/ Crash
    BY <1>1, <1>10 DEF RemoveAll, Crash, Return, Forget, Late, Writing
  <1>11. CASE UNCHANGED vars
    BY <1>1, <1>3, <1>11 DEF vars
  <1> QED
    BY <1>4, <1>5, <1>6, <1>7, <1>8, <1>9, <1>10, <1>11 DEF Next

-----------------------------------------------------------------------------
\* Only Store writes pem files, and only those of its own cluster.
LEMMA TargetPem ==
  ASSUME NEW n \in Names, NEW f \in PemName, cmd.name \in Names, <<n, f>> \in Targets
  PROVE  n = cmd.name /\ cmd.op = "Store"
  <1>1. <<n, f>> # Kube /\ \A m \in Names : <<n, f>> # Config(m)
    <2>1. f # "config"
      BY DEF PemName
    <2> QED
      BY <2>1, FilesDiffer DEF Config
  <1>2. cmd.op = "Store" /\ <<n, f>> \in FilesToWrite
    BY <1>1 DEF Targets
  <1> QED
    BY <1>1, <1>2 DEF FilesToWrite

\* The pem file of a cluster is disturbed only by a Store of that cluster.
LEMMA OtherFilesKept ==
  ASSUME TypeOK, CmdInv, WriteInv, phase \in Writing,
         \A g \in File : g # file => fs'[g] = fs[g],
         NEW n \in Names, NEW f \in PemName, ~(cmd.op = "Store" /\ n = cmd.name)
  PROVE  fs'[<<n, f>>] = fs[<<n, f>>]
  <1>1. cmd.name \in Names /\ file \in Targets
    BY DEF CmdInv, WriteInv, Writing
  <1>2. <<n, f>> # file
    BY <1>1, TargetPem
  <1> QED
    BY <1>2, FilesDiffer

\* Without faults every command leaves the other clusters usable.
LEMMA FaultFreeKept ==
  ASSUME TypeOK, DiskInv, CmdInv, WriteInv, KubeInv, FaultFreeInv, TypeOK', [Next]_vars
  PROVE  FaultFreeInv'
  <1>1. LocalType /\ DiskType /\ file \in File /\ Data = DataOf(file)
    BY DEF TypeOK, LocalType, DiskType, Data, DataOf
  <1>2. faults \in Nat /\ faults' \in Nat
    BY CLIStoreAssumption DEF TypeOK
  <1>3. CASE faults' # 0
    BY <1>3 DEF FaultFreeInv
  <1>4. CASE faults' = 0
    <2>1. faults = 0 /\ ~StepFails /\ ~Crash
      <3>1. StepFails \/ Crash => faults' = faults + 1
        BY DEF StepFails, Crash
      <3>2. ASSUME ~(StepFails \/ Crash) PROVE faults' = faults
        <4>1. CASE \E o \in Operation \ {"rmIgnore"}, n \in Names, g \in Credentials : Begin(o, n, g)
          BY <4>1 DEF Begin
        <4>2. CASE Load \/ ReadKube \/ AllWritten \/ RemoveFile \/ RemoveAll
          BY <4>2 DEF Load, ReadKube, AllWritten, RemoveFile, RemoveAll
        <4>3. CASE WriteNext \/ Stat \/ Complete \/ WriteTemp \/ Unlink \/ Rename
          BY <4>3 DEF WriteNext, Stat, Complete, WriteTemp, Unlink, Rename
        <4>4. CASE UNCHANGED vars
          BY <4>4 DEF vars
        <4> QED
          BY <3>2, <4>1, <4>2, <4>3, <4>4 DEF Next
      <3> QED
        BY <1>2, <1>4, <3>1, <3>2
    <2>2. phase \in Writing => Targets \subseteq File /\ \A f \in File : DataOf(f) \in Content(f)
      BY TargetsAreFiles DEF Writing
    <2>3. ASSUME phase \notin Late, UNCHANGED <<fs, stored>> PROVE FaultFreeInv'
      BY <2>1, <2>3 DEF FaultFreeInv, Late, Writing
    <2>4. ASSUME phase \in Late \ {"open", "rename", "removeAll"}, phase' \in Late, UNCHANGED <<fs, stored, cmd>>
          PROVE  FaultFreeInv'
      BY <2>1, <2>4 DEF FaultFreeInv, Removing
    <2>5. CASE \E o \in Operation \ {"rmIgnore"}, n \in Names, g \in Credentials : Begin(o, n, g)
      BY <2>3, <2>5 DEF Begin, Late, Writing
    <2>6. CASE Load \/ ReadKube
      BY <2>3, <2>6 DEF Load, ReadKube, Late, Writing
    <2>7. CASE WriteNext \/ WriteTemp
      BY <2>4, <2>7 DEF WriteNext, WriteTemp, Late, Writing
    <2>8. CASE AllWritten /\ Removing
      BY <2>4, <2>8 DEF AllWritten, Late, Writing
    <2>9. CASE AllWritten /\ ~Removing
      <3>1. /\ phase = "next" /\ pending = {} /\ UNCHANGED fs /\ cmd.name \in Names
            /\ stored' = IF cmd.op = "Store" THEN [stored EXCEPT ![cmd.name] = cmd.gen] ELSE stored
        BY <2>9 DEF AllWritten, CmdInv
      <3>2. \A f \in File : fs[f].st # "torn"
        BY <2>1, <3>1 DEF FaultFreeInv
      <3>3. ASSUME NEW n \in Names, stored[n] # NoGen
            PROVE  fs[Kube].st = "whole" /\ fs[Kube].val.entry[n] # NoGen
        BY <2>1, <2>9, <3>1, <3>3 DEF FaultFreeInv
      <3>4. CASE cmd.op # "Store"
        BY <2>1, <3>1, <3>2, <3>3, <3>4 DEF FaultFreeInv
      <3>5. CASE cmd.op = "Store"
        <4>1. \A f \in FilesToWrite : fs[f] = Whole(DataOf(f))
          BY <3>1, <3>5 DEF WriteInv, Targets, Late, Writing
        <4>2. fs[Kube] = Whole(kube) /\ kube.entry[cmd.name] # NoGen
          BY <3>1, <3>5, <4>1 DEF FilesToWrite, DataOf, KubeInv, Late
        <4>3. ASSUME NEW f \in PemName, Certificate(cmd.gen, f) # NoGen
              PROVE  fs[<<cmd.name, f>>] = Whole(cmd.gen)
          <5>1. /\ DataOf(<<cmd.name, f>>) = Certificate(cmd.gen, f)
                /\ Certificate(cmd.gen, f) = cmd.gen
            BY <3>1, <4>3, FilesDiffer DEF DataOf, Certificate
          <5>2. <<cmd.name, f>> \in FilesToWrite
            BY <4>3 DEF FilesToWrite
          <5> QED
            BY <4>1, <5>1, <5>2
        <4>4. stored'[cmd.name] = cmd.gen /\ \A n \in Names : n # cmd.name => stored'[n] = stored[n]
          BY <3>1, <3>5 DEF TypeOK
        <4>5. ASSUME NEW n \in Names, stored'[n] # NoGen
              PROVE  /\ fs[Kube].st = "whole" /\ fs[Kube].val.entry[n] # NoGen
                     /\ \A f \in PemName : Certificate(stored'[n], f) # NoGen =>
                          fs[<<n, f>>] = Whole(stored'[n])
          <5>1. CASE n = cmd.name
            BY <4>2, <4>3, <4>4, <5>1 DEF Whole
          <5>2. CASE n # cmd.name
            BY <2>1, <3>1, <3>3, <4>4, <4>5, <5>2 DEF FaultFreeInv
          <5> QED
            BY <5>1, <5>2
        <4> QED
          BY <3>1, <3>2, <4>5 DEF FaultFreeInv
      <3> QED
        BY <3>4, <3>5
    <2>10. CASE Stat
      <3>1. phase = "stat" /\ UNCHANGED <<cmd, kube, stored, file>>
        BY <2>10 DEF Stat
      <3>2. CASE ~Fresh
        BY <2>4, <2>10, <3>1, <3>2 DEF Stat, Late, Writing
      <3>3. CASE Fresh
        <4>1. phase' = "open" /\ fs' = [fs EXCEPT ![file] = [st |-> "torn", val |-> DataOf(file)]]
          BY <1>1, <2>10, <3>3 DEF Stat
        <4>2. /\ fs'[file] = [st |-> "torn", val |-> DataOf(file)]
              /\ \A g \in File : g # file => fs'[g] = fs[g]
          BY <1>1, <2>2, <3>1, <4>1, WriteType DEF Writing
        <4>3. file = Kube => \A n \in Names : stored[n] = NoGen
          BY <2>1, <3>1, <3>3 DEF FaultFreeInv, Fresh
        <4>4. \A f \in File : fs'[f].st = "torn" => f = file
          BY <2>1, <3>1, <4>2 DEF FaultFreeInv
        <4>5. ASSUME NEW n \in Names, stored[n] # NoGen
              PROVE  /\ fs'[Kube] = fs[Kube]
                     /\ \A f \in PemName : ~(cmd.op = "Store" /\ n = cmd.name) =>
                          fs'[<<n, f>>] = fs[<<n, f>>]
          BY <3>1, <4>2, <4>3, <4>5, FilesDiffer, OtherFilesKept DEF Writing
        <4> QED
          BY <2>1, <3>1, <4>1, <4>4, <4>5 DEF FaultFreeInv, Removing, Late, Writing
      <3> QED
        BY <3>2, <3>3
    <2>11. CASE Unlink
      <3>1. /\ phase = "unlink" /\ phase' = "rename" /\ UNCHANGED <<cmd, stored, file>>
            /\ fs' = [fs EXCEPT ![file] = Absent(file)]
        BY <2>11 DEF Unlink
      <3>2. fs'[file] = Absent(file) /\ \A g \in File : g # file => fs'[g] = fs[g]
        BY <1>1, <3>1, OneFile
      <3>3. \A f \in File : fs'[f].st # "torn"
        BY <2>1, <3>1, <3>2 DEF FaultFreeInv, Absent
      <3>4. file = Kube => fs'[Kube].st # "whole"
        BY <3>2 DEF Absent
      <3>5. ASSUME NEW n \in Names, NEW f \in PemName, ~(cmd.op = "Store" /\ n = cmd.name)
            PROVE  fs'[<<n, f>>] = fs[<<n, f>>]
        BY <3>1, <3>2, <3>5, OtherFilesKept DEF Writing
      <3>6. file # Kube => fs'[Kube] = fs[Kube]
        BY <3>2, FilesDiffer
      <3> QED
        BY <2>1, <3>1, <3>3, <3>4, <3>5, <3>6 DEF FaultFreeInv, Removing, Late, Writing
    <2>12. CASE Complete \/ Rename
      <3>1. phase \in {"open", "rename"} /\ phase' = "next" /\ UNCHANGED <<cmd, stored, file>>
        BY <2>12 DEF Complete, Rename
      <3>2. fs' = [fs EXCEPT ![file] = [st |-> "whole", val |-> DataOf(file)]]
        <4>1. CASE Complete
          <5>1. fs[file].val = DataOf(file)
            BY <4>1 DEF Complete, WriteInv
          <5> QED
            BY <1>1, <4>1, <5>1, CompleteWrites DEF Whole
        <4>2. CASE Rename
          BY <1>1, <4>2 DEF Rename
        <4> QED
          BY <2>12, <4>1, <4>2
      <3>3. fs'[file] = Whole(DataOf(file)) /\ \A g \in File : g # file => fs'[g] = fs[g]
        BY <1>1, <2>2, <3>1, <3>2, WriteType DEF Whole, Writing
      <3>4. \A f \in File : fs'[f].st # "torn"
        BY <2>1, <3>1, <3>3 DEF FaultFreeInv, Whole
      <3>5. ASSUME NEW n \in Names, NEW f \in PemName, ~(cmd.op = "Store" /\ n = cmd.name)
            PROVE  fs'[<<n, f>>] = fs[<<n, f>>]
        BY <3>1, <3>3, <3>5, OtherFilesKept DEF Writing
      <3>6. CASE file # Kube
        <4>1. fs'[Kube] = fs[Kube]
          BY <3>3, <3>6, FilesDiffer
        <4> QED
          BY <2>1, <3>1, <3>4, <3>5, <3>6, <4>1 DEF FaultFreeInv, Removing, Late, Writing
      <3>7. CASE file = Kube
        <4>1. fs'[Kube].st = "whole" /\ fs'[Kube].val = kube
          BY <3>3, <3>7 DEF Whole, DataOf
        <4>2. cmd.op # "PersistStatus"
          BY <3>1, <3>7, FilesDiffer DEF WriteInv, CmdInv, Targets, Writing
        <4>3. \A n \in Names :
                stored[n] # NoGen /\ ~(Removing /\ n = cmd.name) => kube.entry[n] # NoGen
          BY <2>1, <3>1, <4>2 DEF KubeInv, Late, Writing
        <4> QED
          BY <2>1, <3>1, <3>4, <3>5, <4>1, <4>3 DEF FaultFreeInv, Removing, Late, Writing
      <3> QED
        BY <3>6, <3>7
    <2>13. CASE RemoveAll
      <3>1. /\ phase = "removeAll" /\ phase' = "idle" /\ cmd.name \in Names /\ Removing
            /\ UNCHANGED fs /\ stored' = [stored EXCEPT ![cmd.name] = NoGen]
        BY <2>13 DEF RemoveAll, Return, Forget, CmdInv
      <3>2. \A f \in File : fs[f].st # "torn"
        BY <2>1, <3>1 DEF FaultFreeInv
      <3>3. \A n \in Names : stored'[n] # NoGen => n # cmd.name /\ stored'[n] = stored[n]
        BY <3>1 DEF TypeOK
      <3>4. cmd.op # "Store"
        BY <3>1 DEF Removing
      <3>5. ASSUME NEW n \in Names, stored'[n] # NoGen
            PROVE  /\ fs[Kube].st = "whole" /\ fs[Kube].val.entry[n] # NoGen
                   /\ \A f \in PemName : Certificate(stored'[n], f) # NoGen =>
                        fs[<<n, f>>] = Whole(stored'[n])
        <4>1. n # cmd.name /\ stored'[n] = stored[n] /\ stored[n] # NoGen
          BY <3>3, <3>5
        <4> QED
          BY <2>1, <3>1, <3>4, <4>1 DEF FaultFreeInv
      <3> QED
        BY <3>1, <3>2, <3>5 DEF FaultFreeInv
    <2>14. CASE UNCHANGED vars
      BY <2>1, <2>14 DEF vars, FaultFreeInv, Removing
    <2>15. CASE RemoveFile
      <3>1. PICK g \in File : g \in Dir(cmd.name) /\ fs' = [fs EXCEPT ![g] = Absent(g)]
        BY <2>15, FileRemoved
      <3>2. /\ phase = "removeAll" /\ cmd.name \in Names
            /\ UNCHANGED <<phase, cmd, file, stored>>
        BY <2>15, FileRemoved DEF RemoveFile
      <3>3. fs'[g] = Absent(g) /\ \A h \in File : h # g => fs'[h] = fs[h]
        BY <1>1, <3>1, OneFile
      <3>4. \A f \in File : fs'[f].st # "torn"
        BY <2>1, <3>2, <3>3 DEF FaultFreeInv, Absent
      <3>5. fs'[Kube] = fs[Kube]
        BY <3>1, <3>2, <3>3, FilesDiffer
      <3>6. ASSUME NEW n \in Names, NEW f \in PemName, n # cmd.name
            PROVE  fs'[<<n, f>>] = fs[<<n, f>>]
        <4>1. <<n, f>> \in File /\ <<n, f>> # g
          BY <3>1, <3>2, <3>6, FilesDiffer
        <4> QED
          BY <3>3, <4>1
      <3> QED
        BY <2>1, <3>2, <3>4, <3>5, <3>6 DEF FaultFreeInv, Removing
    <2> QED
      BY <2>1, <2>5, <2>6, <2>7, <2>8, <2>9, <2>10, <2>11, <2>12, <2>13, <2>14, <2>15 DEF Next
  <1> QED
    BY <1>3, <1>4

\* Remove answers success only when the entry and the files are gone.
LEMMA ForgetsKept ==
  ASSUME TypeOK, CmdInv, WriteInv, KubeInv, RemoveForgets, [Next]_vars
  PROVE  RemoveForgets'
  <1>1. ASSUME phase' # "idle" PROVE RemoveForgets'
    BY <1>1 DEF RemoveForgets
  <1>2. ASSUME Failed, phase # "idle" PROVE RemoveForgets'
    BY <1>2, FailedOutcome DEF RemoveForgets
  <1>3. CASE \E o \in Operation \ {"rmIgnore"}, n \in Names, g \in Credentials : Begin(o, n, g)
    BY <1>1, <1>3 DEF Begin
  <1>4. CASE Load \/ ReadKube \/ StepFails
    BY <1>1, <1>2, <1>4 DEF Load, ReadKube, StepFails, Undecodable
  <1>5. CASE WriteNext \/ Stat \/ Complete \/ WriteTemp \/ Unlink \/ Rename \/ RemoveFile
    BY <1>1, <1>5 DEF WriteNext, Stat, Complete, WriteTemp, Unlink, Rename, RemoveFile
  <1>6. CASE AllWritten
    <2>1. CASE Removing
      BY <1>1, <1>6, <2>1 DEF AllWritten
    <2>2. CASE ~Removing
      BY <1>6, <2>2 DEF AllWritten, Return, RemoveForgets, Removing
    <2> QED
      BY <2>1, <2>2
  <1>7. CASE RemoveAll
    <2>1. /\ phase = "removeAll" /\ done'.cmd = cmd
          /\ Removing /\ pending = {} /\ cmd.name \in Names
          /\ UNCHANGED fs /\ \A f \in Dir(cmd.name) : fs[f].st = "absent"
      BY <1>7 DEF RemoveAll, Return, CmdInv
    <2>2. fs[Kube] = Whole(kube)
      BY <2>1 DEF WriteInv, Targets, Removing, Late, Writing, DataOf
    <2>3. kube.entry[cmd.name] = NoGen
      BY <2>1 DEF KubeInv, Late, Removing
    <2>4. fs'[Kube].val.entry[cmd.name] = NoGen
      BY <2>1, <2>2, <2>3, FilesDiffer DEF Whole
    <2>5. \A f \in Dir(cmd.name) : fs'[f].st = "absent"
      BY <2>1
    <2> QED
      BY <2>1, <2>4, <2>5 DEF RemoveForgets
  <1>8. CASE Crash
    BY <1>8 DEF Crash, RemoveForgets
  <1>9. CASE UNCHANGED vars
    BY <1>9 DEF vars, RemoveForgets
  <1> QED
    BY <1>3, <1>4, <1>5, <1>6, <1>7, <1>8, <1>9 DEF Next

-----------------------------------------------------------------------------
\* The inductive invariant holds.
LEMMA StoreInvHolds == Spec => []StoreInv
  <1>1. Init => StoreInv
    <2> SUFFICES ASSUME Init PROVE StoreInv
      OBVIOUS
    <2>1. EmptyKube \in KubeConfig /\ NoCommand \in Command
      BY DEF EmptyKube, KubeConfig, Credentials, NoCommand, Command
    <2>2. fs = [f \in File |-> Absent(f)]
      BY DEF Init
    <2>3. \A f \in File : /\ fs[f] = [st |-> fs[f].st, val |-> fs[f].val]
                         /\ fs[f].st = "absent" /\ fs[f].val \in Content(f)
      BY <2>2, AbsentType
    <2>4. DiskInv
      BY <2>2, <2>3 DEF DiskInv
    <2>5. TypeOK
      BY <2>1, <2>2, <2>3, FilesDiffer, CLIStoreAssumption DEF Init, TypeOK, Phase, Credentials
    <2>6. CmdInv /\ WriteInv /\ KubeInv
      BY DEF Init, CmdInv, WriteInv, KubeInv, Late, Writing
    <2>7. FaultFreeInv
      BY <2>3 DEF Init, FaultFreeInv
    <2>8. RemoveForgets
      BY DEF Init, RemoveForgets, NoCommand
    <2> QED
      BY <2>4, <2>5, <2>6, <2>7, <2>8 DEF StoreInv
  <1>2. StoreInv /\ [Next]_vars => StoreInv'
    <2> SUFFICES ASSUME StoreInv, [Next]_vars PROVE StoreInv'
      OBVIOUS
    <2>1. TypeOK' /\ DiskInv'
      BY TypeStep DEF StoreInv
    <2>2. CmdInv' /\ WriteInv' /\ KubeInv' /\ RemoveForgets'
      BY CmdKept, WriteKept, KubeKept, ForgetsKept DEF StoreInv
    <2>3. FaultFreeInv'
      BY <2>1, FaultFreeKept DEF StoreInv
    <2> QED
      BY <2>1, <2>2, <2>3 DEF StoreInv
  <1> QED
    BY <1>1, <1>2, PTL DEF Spec

\* Every state of the store is well typed, for any clusters, credentials and faults: a
\* file that is whole holds bytes of its own kind, never those of another file.
THEOREM StoreTypes == Spec => []TypeOK
  <1>1. StoreInv => TypeOK
    BY DEF StoreInv
  <1> QED
    BY <1>1, StoreInvHolds, PTL

\* A Remove that succeeds leaves neither an entry in the kubeconfig nor a file of the
\* cluster, whatever earlier commands left half written.
THEOREM RemovesForget == Spec => []RemoveForgets
  <1>1. StoreInv => RemoveForgets
    BY DEF StoreInv
  <1> QED
    BY <1>1, StoreInvHolds, PTL

\* Without faults a stored cluster keeps its entry and its certificates through the
\* operations of all clusters.
THEOREM StoredStaysUsable == Spec => []StoredUsable
  <1>1. StoreInv => StoredUsable
    BY DEF StoreInv, FaultFreeInv, StoredUsable, Late, Writing, Whole
  <1> QED
    BY <1>1, StoreInvHolds, PTL

\* Wherever a command is killed or a call fails, a file that was complete is lost only
\* between os.Remove and os.Rename of that file, or with its cluster.
THEOREM NoFileIsLost == Spec => NeverLost
  <1> DEFINE Kept == \A f \in File : Holds(f) /\ ~Holds(f)' =>
                       \/ Window(f)
                       \/ phase = "removeAll" /\ f \in Dir(cmd.name)
  <1>1. ASSUME StoreInv, [Next]_vars PROVE Kept
    <2> SUFFICES ASSUME NEW f \in File, Holds(f), ~Window(f),
                        ~(phase = "removeAll" /\ f \in Dir(cmd.name))
                 PROVE  Holds(f)'
      OBVIOUS
    <2>1. TypeOK /\ DiskInv /\ LocalType /\ DiskType /\ CmdInv
      BY <1>1 DEF StoreInv, TypeOK, LocalType, DiskType
    <2>2. fs[f].st = "whole"
      BY DEF Holds
    <2>3. ASSUME fs'[f] = fs[f] PROVE Holds(f)'
      BY <2>2, <2>3 DEF Holds
    <2>4. CASE \E o \in Operation \ {"rmIgnore"}, n \in Names, g \in Credentials : Begin(o, n, g)
      BY <2>3, <2>4 DEF Begin
    <2>5. CASE Load \/ ReadKube \/ WriteNext \/ AllWritten \/ WriteTemp \/ StepFails
      BY <2>3, <2>5 DEF Load, ReadKube, WriteNext, AllWritten, WriteTemp, StepFails
    <2>6. CASE Stat
      BY <2>1, <2>2, <2>6 DEF Stat, Fresh, Holds, DiskType, DiskInv
    <2>7. CASE Complete
      <3>1. fs'[f].st = "whole" \/ fs'[f] = fs[f]
        <4>1. file \in File /\ fs' = [fs EXCEPT ![file] = Whole(fs[file].val)]
          BY <2>1, <2>7, CompleteWrites DEF LocalType
        <4>2. fs'[file] = Whole(fs[file].val) /\ \A g \in File : g # file => fs'[g] = fs[g]
          BY <2>1, <4>1, OneFile
        <4> QED
          BY <4>2 DEF Whole
      <3> QED
        BY <2>3, <3>1 DEF Holds
    <2>8. CASE Unlink
      BY <2>1, <2>2, <2>8 DEF Unlink, Holds, Window, DiskType, DiskInv
    <2>9. CASE Rename
      BY <2>1, <2>2, <2>9 DEF Rename, Holds, DiskType, DiskInv
    <2>10. CASE RemoveFile
      <3>1. PICK g \in File : g \in Dir(cmd.name) /\ fs' = [fs EXCEPT ![g] = Absent(g)]
        BY <2>1, <2>10, FileRemoved
      <3>2. f # g
        BY <2>10, <3>1 DEF RemoveFile
      <3> QED
        BY <2>1, <2>3, <3>1, <3>2, OneFile
    <2>11. CASE RemoveAll \/ Crash
      BY <2>3, <2>11 DEF RemoveAll, Crash
    <2>12. CASE UNCHANGED vars
      BY <2>3, <2>12 DEF vars
    <2> QED
      BY <1>1, <2>4, <2>5, <2>6, <2>7, <2>8, <2>9, <2>10, <2>11, <2>12 DEF Next
  <1>2. StoreInv /\ [Next]_vars => [Kept]_vars
    BY <1>1
  <1> QED
    BY <1>2, StoreInvHolds, PTL DEF Spec, NeverLost
=============================================================================
