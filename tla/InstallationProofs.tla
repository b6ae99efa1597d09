------------------------ MODULE InstallationProofs ------------------------
(***************************************************************************)
(* A receipt that is complete tells the truth, a failed installation       *)
(* leaves nothing, and no installer touches what another has made: for any *)
(* installers, paths and jobs.                                             *)
(*                                                                         *)
(* The argument is one of ownership.  From the mkdir on, which fails when  *)
(* the directory is there, an installer owns its output, and no step of    *)
(* another one changes it.  What is true of the output when its owner      *)
(* writes the receipt therefore follows from the owner's own steps.        *)
(***************************************************************************)
EXTENDS Installation, TLAPS

Mine(i) == {p \in Paths : disk[p].there /\ disk[p].by = i}
Working == {"download", "support", "write", "receipt", "seal", "cleanup"}

\* Setup has come to the data; it owns the native library by then.
Late(i) == Job(i).kind = "setup" /\ installer[i].phase = "data"
Earlier(i) == IF Late(i) THEN {Job(i).native} ELSE {}

\* What an installer owns at each stage.
Holding(i) ==
  /\ Is(i, "precheck") => Mine(i) = {} /\ ~ Late(i)
  /\ Is(i, "failed") => Mine(i) = {}
  /\ installer[i].at \in {"check", "mkdir"} => Mine(i) = Earlier(i)
  /\ installer[i].at \in Working => Mine(i) = Earlier(i) \cup {Output(i)}
  /\ Is(i, "rollback") => /\ Late(i) /\ Job(i).native \in Mine(i)
                          /\ Mine(i) \subseteq {Job(i).native, Job(i).data}

\* The files that a receipt will vouch for.
Target(i) == IF installer[i].phase = "native" THEN NativeFiles
             ELSE DataFiles \cup (IF Job(i).gener THEN {"index"} ELSE {})

\* How far its output is.
Progress(i) ==
  LET dir == disk[Output(i)]
      pending == dir.files \cup installer[i].todo
  IN /\ installer[i].at \in {"download", "support", "write", "receipt"}
          => dir.receipt = "none"
     /\ installer[i].at \in {"seal", "cleanup"} => dir.receipt # "complete"
     /\ Is(i, "support") => Target(i) \subseteq pending \cup {"index"}
     /\ Is(i, "write") => IF installer[i].next = "support"
                          THEN Target(i) \subseteq pending \cup {"index"}
                          ELSE Target(i) \subseteq pending
     /\ installer[i].at \in {"receipt", "seal"} => Target(i) \subseteq dir.files

\* Nothing that was not verified is ever written.
Verifying ==
  /\ \A p \in Paths : disk[p].sound
  /\ \A i \in Installers : installer[i].got = "good"

IInv ==
  /\ TypeOK /\ Verifying /\ ReceiptMeansComplete
  /\ \A i \in Installers : Holding(i) /\ Progress(i)

----------------------------------------------------------------------------
LEMMA Apart == \A i \in Installers : i # User
BY UserAssumption

LEMMA Outputs ==
  ASSUME TypeOK, NEW i \in Installers
  PROVE  /\ Output(i) \in Paths /\ Job(i) \in JobType /\ Job(i) \in Jobs
         /\ Job(i).native \in Paths /\ Job(i).data \in Paths
         /\ Job(i).kind = "setup" => Job(i).native # Job(i).data
         /\ Late(i) => Output(i) = Job(i).data
BY JobsAssumption DEF TypeOK, InstallerType, Output, Job, JobType, Late

LEMMA NewDirectories ==
  ASSUME NEW i \in Installers \cup {User}
  PROVE  /\ NoDirectory \in Directory /\ Made(i) \in Directory
         /\ NoDirectory.sound /\ NoDirectory.receipt = "none"
         /\ NoDirectory.by = User /\ ~ NoDirectory.there
         /\ Made(i).sound /\ Made(i).receipt = "none" /\ Made(i).by = i
         /\ Made(i).there /\ Made(i).files = {}
<1>1. {} \in SUBSET AllFiles
  OBVIOUS
<1> QED BY <1>1 DEF NoDirectory, Made, Blank, Directory

LEMMA Initially == Init => IInv
<1> SUFFICES ASSUME Init PROVE IInv
  OBVIOUS
<1>1. \A p \in Paths : disk[p] \in {NoDirectory, Made(User)}
  BY DEF Init
<1>2. ASSUME NEW i \in Installers
      PROVE  /\ installer[i].job \in Jobs
             /\ installer[i].phase \in {"native", "data"}
             /\ installer[i].got = "good" /\ installer[i].next = "receipt"
             /\ installer[i].todo = {}
             /\ installer[i].at \in {"precheck", "check"}
             /\ Job(i).kind = "setup" => installer[i].phase = "native"
             /\ installer[i] \in InstallerType
  <2>1. PICK j \in Jobs : installer[i] =
          [job |-> j, phase |-> IF j.kind = "data" THEN "data" ELSE "native",
           at |-> IF j.kind = "setup" THEN "precheck" ELSE "check",
           got |-> "good", todo |-> {}, next |-> "receipt"]
    BY DEF Init
  <2>2. j.kind \in {"native", "data", "setup"}
    BY JobsAssumption DEF JobType
  <2>3. installer[i] \in InstallerType
    BY <2>1, <2>2 DEF InstallerType, Stages, Ends
  <2> QED BY <2>1, <2>2, <2>3 DEF Job
<1>3. \A p \in Paths : /\ disk[p] \in Directory /\ disk[p].sound
                       /\ disk[p].receipt = "none" /\ disk[p].by = User
  <2> TAKE p \in Paths
  <2>1. disk[p] = NoDirectory \/ disk[p] = Made(User)
    BY <1>1
  <2> QED BY <2>1, NewDirectories
<1>4. TypeOK
  BY <1>2, <1>3 DEF TypeOK, Init
<1>5. Verifying /\ ReceiptMeansComplete
  BY <1>2, <1>3 DEF Verifying, ReceiptMeansComplete
<1>6. ASSUME NEW i \in Installers PROVE Holding(i) /\ Progress(i)
  <2>1. Mine(i) = {}
    BY <1>3, Apart DEF Mine
  <2> QED BY <1>2, <2>1 DEF Holding, Progress, Is, Working, Late, Earlier
<1> QED BY <1>4, <1>5, <1>6 DEF IInv

\* What installer i does to a directory that is its own or nobody's says
\* nothing about another installer.
LEMMA Elsewhere ==
  ASSUME IInv, NEW i \in Installers, NEW p \in Paths,
         \A j \in Installers \ {i} : installer'[j] = installer[j],
         \A q \in Paths \ {p} : disk'[q] = disk[q],
         \/ disk'[p] = disk[p]
         \/ /\ disk[p].there => disk[p].by = i
            /\ disk'[p].there => disk'[p].by = i,
         NEW j \in Installers \ {i}
  PROVE  Holding(j)' /\ Progress(j)'
<1>1. Mine(j)' = Mine(j) /\ \A q \in Mine(j) : disk'[q] = disk[q]
  BY DEF Mine
<1>2. /\ Job(j)' = Job(j) /\ Output(j)' = Output(j) /\ Late(j)' = Late(j)
      /\ Earlier(j)' = Earlier(j) /\ Target(j)' = Target(j)
      /\ installer'[j] = installer[j]
  BY DEF Job, Output, Late, Earlier, Target
<1>3. Holding(j)'
  BY <1>1, <1>2 DEF IInv, Holding, Is
<1>4. Progress(j)'
  <2>1. CASE installer[j].at \in Working
    <3>1. disk'[Output(j)] = disk[Output(j)]
      BY <1>1, <2>1 DEF IInv, Holding
    <3> QED BY <1>2, <3>1 DEF IInv, Progress, Is
  <2>2. CASE installer[j].at \notin Working
    BY <1>2, <2>2 DEF Progress, Working, Is
  <2> QED BY <2>1, <2>2
<1> QED BY <1>3, <1>4

----------------------------------------------------------------------------
(* The steps that leave every directory alone.                             *)

\* An installer goes on to another stage and the disk stays as it is.
LEMMA Onward ==
  ASSUME IInv, NEW i \in Installers, NEW s \in InstallerType,
         installer' = [installer EXCEPT ![i] = s], UNCHANGED disk,
         s.got = "good", Holding(i)', Progress(i)'
  PROVE  IInv'
<1>1. installer'[i] = s /\ \A j \in Installers \ {i} : installer'[j] = installer[j]
  BY DEF IInv, TypeOK
<1>2. TypeOK'
  BY DEF IInv, TypeOK
<1>3. Verifying' /\ ReceiptMeansComplete'
  BY <1>1 DEF IInv, Verifying, ReceiptMeansComplete
<1>4. ASSUME NEW j \in Installers PROVE Holding(j)' /\ Progress(j)'
  <2>1. CASE j = i
    BY <2>1
  <2>2. CASE j # i
    <3>1. Output(i) \in Paths
      BY Outputs DEF IInv
    <3> QED BY <1>1, <2>2, <3>1, Elsewhere
  <2> QED BY <2>1, <2>2
<1> QED BY <1>2, <1>3, <1>4 DEF IInv

\* The same when only the stage changes.
LEMMA Turned ==
  ASSUME IInv, NEW i \in Installers, NEW s \in Stages \cup Ends,
         installer' = To(i, s), UNCHANGED disk
  PROVE  /\ installer' = [installer EXCEPT ![i] = [installer[i] EXCEPT !.at = s]]
         /\ [installer[i] EXCEPT !.at = s] \in InstallerType
         /\ installer'[i].at = s /\ installer'[i].got = "good"
         /\ installer'[i].todo = installer[i].todo
         /\ installer'[i].next = installer[i].next
         /\ Job(i)' = Job(i) /\ Output(i)' = Output(i) /\ Late(i)' = Late(i)
         /\ Target(i)' = Target(i)
         /\ Mine(i)' = Mine(i) /\ Earlier(i)' = Earlier(i)
<1>1. installer[i] \in InstallerType /\ installer[i].got = "good"
  BY DEF IInv, TypeOK, Verifying
<1>2. installer' = [installer EXCEPT ![i] = [installer[i] EXCEPT !.at = s]]
  BY DEF To
<1>3. installer'[i] = [installer[i] EXCEPT !.at = s]
  BY <1>2 DEF IInv, TypeOK
<1>4. /\ installer'[i].at = s /\ installer'[i].got = "good"
      /\ installer'[i].todo = installer[i].todo
      /\ installer'[i].next = installer[i].next
      /\ installer'[i].job = installer[i].job
      /\ installer'[i].phase = installer[i].phase
  BY <1>1, <1>3 DEF InstallerType
<1>5. [installer[i] EXCEPT !.at = s] \in InstallerType
  BY <1>1 DEF InstallerType
<1> QED BY <1>2, <1>4, <1>5 DEF Job, Output, Late, Target, Mine, Earlier

LEMMA TurnedOn ==
  ASSUME IInv, NEW i \in Installers, NEW s \in Stages \cup Ends,
         installer' = To(i, s), UNCHANGED disk, Holding(i)', Progress(i)'
  PROVE  IInv'
<1> DEFINE r == [installer[i] EXCEPT !.at = s]
<1>1. installer' = [installer EXCEPT ![i] = r] /\ r \in InstallerType
  BY Turned
<1>2. r.got = "good"
  BY DEF IInv, TypeOK, InstallerType, Verifying
<1> HIDE DEF r
<1> QED BY <1>1, <1>2, Onward

\* An installer that gives up where it owns what it owned before.
LEMMA GivesUp ==
  ASSUME IInv, NEW i \in Installers, installer[i].at \in {"check", "mkdir"},
         installer' = To(i, AfterFailure(i)), UNCHANGED disk
  PROVE  IInv'
<1> DEFINE s == AfterFailure(i)
<1>1. s \in Stages \cup Ends /\ s = (IF Late(i) THEN "rollback" ELSE "failed")
  BY DEF AfterFailure, Stages, Ends, Late
<1> HIDE DEF s
<1>2. installer' = To(i, s)
  BY DEF s
<1>3. Mine(i) = Earlier(i)
  BY DEF IInv, Holding
<1>4. /\ installer'[i].at = s /\ Mine(i)' = Mine(i) /\ Earlier(i)' = Earlier(i)
      /\ Late(i)' = Late(i) /\ Job(i)' = Job(i)
  BY <1>1, <1>2, Turned
<1>5. Holding(i)'
  BY <1>1, <1>3, <1>4 DEF Holding, Is, Earlier, Working
<1>6. Progress(i)'
  BY <1>1, <1>4 DEF Progress, Is
<1> QED BY <1>1, <1>2, <1>5, <1>6, TurnedOn

LEMMA PrecheckStep ==
  ASSUME IInv, NEW i \in Installers, Precheck(i)
  PROVE  IInv'
<1>1. PICK s \in {"failed", "check"} : installer' = To(i, s)
  BY DEF Precheck
<1>2. Mine(i) = {} /\ ~ Late(i)
  BY DEF IInv, Holding, Precheck
<1>3. s \in Stages \cup Ends /\ UNCHANGED disk
  BY DEF Stages, Ends, Precheck
<1>4. Holding(i)' /\ Progress(i)'
  BY <1>1, <1>2, <1>3, Turned DEF Holding, Progress, Is, Earlier, Working
<1> QED BY <1>1, <1>3, <1>4, TurnedOn

LEMMA CheckStep ==
  ASSUME IInv, NEW i \in Installers, Check(i)
  PROVE  IInv'
<1>1. CASE installer' = To(i, AfterFailure(i))
  BY <1>1, GivesUp DEF Check, Is
<1>2. CASE installer' = To(i, "mkdir")
  <2>1. Mine(i) = Earlier(i)
    BY DEF IInv, Holding, Check, Is
  <2>2. "mkdir" \in Stages \cup Ends /\ UNCHANGED disk
    BY DEF Stages, Check
  <2>3. /\ installer'[i].at = "mkdir" /\ Mine(i)' = Mine(i)
        /\ Earlier(i)' = Earlier(i)
    BY <1>2, <2>2, Turned
  <2>4. Holding(i)'
    BY <2>1, <2>3 DEF Holding, Is, Working
  <2>5. Progress(i)'
    BY <2>3 DEF Progress, Is
  <2> QED BY <1>2, <2>2, <2>4, <2>5, TurnedOn
<1> QED BY <1>1, <1>2 DEF Check

LEMMA KillStep ==
  ASSUME IInv, NEW i \in Installers, Kill(i)
  PROVE  IInv'
<1>1. "killed" \in Stages \cup Ends /\ installer' = To(i, "killed") /\ UNCHANGED disk
  BY DEF Ends, Kill
<1>2. Holding(i)' /\ Progress(i)'
  BY <1>1, Turned DEF Holding, Progress, Is, Working
<1> QED BY <1>1, <1>2, TurnedOn

\* Whatever goes wrong while an output is made ends in the cleanup.
LEMMA Breaks ==
  ASSUME IInv, NEW i \in Installers, installer[i].at \in Working,
         installer' = To(i, "cleanup"), UNCHANGED disk
  PROVE  IInv'
<1>1. "cleanup" \in Stages \cup Ends
  BY DEF Stages
<1>2. Mine(i) = Earlier(i) \cup {Output(i)} /\ disk[Output(i)].receipt # "complete"
  BY DEF IInv, Holding, Progress, Working, Is
<1>3. Holding(i)' /\ Progress(i)'
  BY <1>1, <1>2, Turned DEF Holding, Progress, Is, Working
<1> QED BY <1>1, <1>3, TurnedOn

----------------------------------------------------------------------------
(* The steps on a directory.                                               *)

\* A step of installer i that changes no directory but p, which nobody else
\* has made, before or after.
LEMMA Changes ==
  ASSUME IInv, NEW i \in Installers, NEW p \in Paths, TypeOK',
         \A j \in Installers \ {i} : installer'[j] = installer[j],
         \A q \in Paths \ {p} : disk'[q] = disk[q],
         disk[p].there => disk[p].by = i,
         disk'[p].there => disk'[p].by = i,
         disk'[p].sound, installer'[i].got = "good",
         disk'[p].receipt = "complete" /\ ~ disk'[p].undone
           => disk'[p].claims \subseteq disk'[p].files,
         Holding(i)', Progress(i)'
  PROVE  IInv'
<1>1. Verifying'
  BY DEF IInv, Verifying
<1>2. ReceiptMeansComplete'
  BY DEF IInv, ReceiptMeansComplete
<1>3. ASSUME NEW j \in Installers PROVE Holding(j)' /\ Progress(j)'
  <2>1. CASE j = i
    BY <2>1
  <2>2. CASE j # i
    BY <2>2, Elsewhere
  <2> QED BY <2>1, <2>2
<1> QED BY <1>1, <1>2, <1>3 DEF IInv

\* What an installer owns after such a step.
LEMMA MineAfter ==
  ASSUME IInv, NEW i \in Installers, NEW p \in Paths,
         \A q \in Paths \ {p} : disk'[q] = disk[q]
  PROVE  Mine(i)' = IF disk'[p].there /\ disk'[p].by = i
                    THEN Mine(i) \cup {p} ELSE Mine(i) \ {p}
BY DEF Mine

LEMMA MkdirStep ==
  ASSUME IInv, NEW i \in Installers, Mkdir(i)
  PROVE  IInv'
<1> DEFINE p == Output(i)
<1>0. p \in Paths /\ (Late(i) => Job(i).native # p)
  BY Outputs DEF IInv, Late
<1>1. CASE /\ ~ disk[p].there /\ disk' = [disk EXCEPT ![p] = Made(i)]
           /\ installer' = To(i, "download")
  <2>1. /\ disk'[p] = Made(i) /\ \A q \in Paths \ {p} : disk'[q] = disk[q]
        /\ disk' \in [Paths -> Directory]
    BY <1>0, <1>1, NewDirectories DEF IInv, TypeOK
  <2>2. /\ installer'[i].at = "download" /\ installer'[i].got = "good"
        /\ \A j \in Installers \ {i} : installer'[j] = installer[j]
        /\ installer'[i].job = installer[i].job
        /\ installer'[i].phase = installer[i].phase
        /\ installer' \in [Installers -> InstallerType]
    BY <1>1 DEF To, IInv, TypeOK, InstallerType, Stages, Verifying
  <2>3. Output(i)' = p /\ Late(i)' = Late(i) /\ Earlier(i)' = Earlier(i)
    BY <2>2 DEF Output, Job, Late, Earlier
  <2>4. Mine(i) = Earlier(i)
    BY DEF IInv, Holding, Mkdir, Is
  <2> HIDE DEF p
  <2>5. Mine(i)' = Earlier(i) \cup {p}
    BY <1>0, <2>1, <2>4, MineAfter, NewDirectories
  <2>6. Holding(i)'
    BY <2>2, <2>3, <2>5 DEF Holding, Is, Working
  <2>7. Progress(i)'
    BY <2>1, <2>2, <2>3, NewDirectories DEF Progress, Is
  <2>8. TypeOK'
    BY <2>1, <2>2 DEF TypeOK
  <2> QED BY <1>0, <1>1, <2>1, <2>2, <2>6, <2>7, <2>8, NewDirectories, Changes
<1>2. CASE installer' = To(i, AfterFailure(i)) /\ UNCHANGED disk
  BY <1>2, GivesUp DEF Mkdir, Is
<1> QED BY <1>1, <1>2 DEF Mkdir, MkdirSucceeds

\* A step of an installer within its acquisition that leaves the disk.
LEMMA Prepares ==
  ASSUME IInv, NEW i \in Installers, NEW s \in InstallerType,
         installer' = [installer EXCEPT ![i] = s], UNCHANGED disk,
         installer[i].at \in Working, s.at \in Working, s.got = "good",
         s.job = installer[i].job, s.phase = installer[i].phase, Progress(i)'
  PROVE  IInv'
<1>1. installer'[i] = s
  BY DEF IInv, TypeOK
<1>2. /\ Mine(i)' = Mine(i) /\ Output(i)' = Output(i)
      /\ Earlier(i)' = Earlier(i) /\ Late(i)' = Late(i)
  BY <1>1 DEF Mine, Output, Job, Earlier, Late
<1>3. Mine(i) = Earlier(i) \cup {Output(i)}
  BY DEF IInv, Holding
<1>4. Holding(i)'
  BY <1>1, <1>2, <1>3 DEF Holding, Is, Working
<1> QED BY <1>4, Onward

LEMMA DownloadStep ==
  ASSUME IInv, NEW i \in Installers, Download(i)
  PROVE  IInv'
<1>1. CASE installer' = To(i, "cleanup")
  BY <1>1, Breaks DEF Download, Is, Working
<1>2. ASSUME NEW got \in {"good", "bad"}, ~ Verified(got),
             installer' = [installer EXCEPT ![i] = [@ EXCEPT !.at = "cleanup"]]
      PROVE  IInv'
  BY <1>2, Breaks DEF Download, Is, Working, To
<1>3. ASSUME NEW got \in {"good", "bad"}, Verified(got),
             installer' = [installer EXCEPT ![i] =
               [@ EXCEPT !.got = got,
                  !.at = IF Gener(i) /\ Job(i).binding = "node"
                         THEN "support" ELSE "write",
                  !.todo = IF installer[i].phase = "native" THEN NativeFiles
                           ELSE DataFiles,
                  !.next = IF Gener(i) /\ Job(i).binding = "deno"
                           THEN "support" ELSE "receipt"]]
      PROVE  IInv'
  <2> DEFINE s == [installer[i] EXCEPT !.got = got,
                  !.at = IF Gener(i) /\ Job(i).binding = "node"
                         THEN "support" ELSE "write",
                  !.todo = IF installer[i].phase = "native" THEN NativeFiles
                           ELSE DataFiles,
                  !.next = IF Gener(i) /\ Job(i).binding = "deno"
                           THEN "support" ELSE "receipt"]
  <2>1. installer[i] \in InstallerType /\ got = "good"
    BY <1>3 DEF IInv, TypeOK, Verified
  <2>2. /\ s.got = "good" /\ s.job = installer[i].job
        /\ s.phase = installer[i].phase
        /\ s.at = IF Gener(i) /\ Job(i).binding = "node"
                  THEN "support" ELSE "write"
        /\ s.todo = IF installer[i].phase = "native" THEN NativeFiles
                    ELSE DataFiles
        /\ s.next = IF Gener(i) /\ Job(i).binding = "deno"
                    THEN "support" ELSE "receipt"
    BY <2>1 DEF InstallerType
  <2>3. s \in InstallerType
    BY <2>1 DEF InstallerType, Stages, AllFiles
  <2>4. installer' = [installer EXCEPT ![i] = s]
    BY <1>3
  <2> HIDE DEF s
  <2>5. installer'[i] = s
    BY <2>4 DEF IInv, TypeOK
  <2>6. /\ Output(i)' = Output(i) /\ Target(i)' = Target(i)
        /\ Gener(i) => installer[i].phase = "data" /\ Job(i).gener
        /\ Job(i).binding \in {"deno", "node"}
    BY <2>2, <2>5, Outputs DEF Output, Job, Target, Gener, IInv, JobType
  <2>7. disk' = disk /\ disk[Output(i)].receipt = "none"
    BY DEF Download, IInv, Progress, Is
  <2>8. /\ Target(i) \subseteq s.todo \cup {"index"}
        /\ ~ Gener(i) => Target(i) \subseteq s.todo
    BY <2>1, <2>2 DEF Target, Gener, InstallerType
  <2>9. Progress(i)'
    BY <2>2, <2>5, <2>6, <2>7, <2>8 DEF Progress, Is
  <2> QED BY <2>2, <2>3, <2>4, <2>7, <2>9, Prepares DEF Download, Is, Working
<1> QED BY <1>1, <1>2, <1>3 DEF Download

LEMMA SupportStep ==
  ASSUME IInv, NEW i \in Installers, Support(i)
  PROVE  IInv'
<1>1. CASE installer' = To(i, "cleanup")
  BY <1>1, Breaks DEF Support, Is, Working
<1>2. ASSUME NEW got \in {"good", "bad"}, ~ Verified(got),
             installer' = [installer EXCEPT ![i] = [@ EXCEPT !.at = "cleanup"]]
      PROVE  IInv'
  BY <1>2, Breaks DEF Support, Is, Working, To
<1>3. ASSUME NEW got \in {"good", "bad"}, Verified(got),
             installer' = [installer EXCEPT ![i] =
               [@ EXCEPT !.at = "write", !.next = "receipt",
                  !.todo = installer[i].todo \cup {"index"},
                  !.got = IF got = "bad" THEN "bad" ELSE installer[i].got]]
      PROVE  IInv'
  <2> DEFINE s == [installer[i] EXCEPT !.at = "write", !.next = "receipt",
                  !.todo = installer[i].todo \cup {"index"},
                  !.got = IF got = "bad" THEN "bad" ELSE installer[i].got]
  <2>1. /\ installer[i] \in InstallerType /\ got = "good"
        /\ installer[i].got = "good"
    BY <1>3 DEF IInv, TypeOK, Verified, Verifying
  <2>2. /\ s.got = "good" /\ s.job = installer[i].job
        /\ s.phase = installer[i].phase /\ s.at = "write"
        /\ s.todo = installer[i].todo \cup {"index"} /\ s.next = "receipt"
    BY <2>1 DEF InstallerType
  <2>3. s \in InstallerType
    BY <2>1 DEF InstallerType, Stages, AllFiles
  <2>4. installer' = [installer EXCEPT ![i] = s]
    BY <1>3
  <2> HIDE DEF s
  <2>5. installer'[i] = s
    BY <2>4 DEF IInv, TypeOK
  <2>6. Output(i)' = Output(i) /\ Target(i)' = Target(i)
    BY <2>2, <2>5 DEF Output, Job, Target
  <2>7. /\ disk' = disk /\ disk[Output(i)].receipt = "none"
        /\ Target(i) \subseteq disk[Output(i)].files \cup installer[i].todo
                                 \cup {"index"}
    BY DEF Support, IInv, Progress, Is
  <2>8. Progress(i)'
    BY <2>2, <2>5, <2>6, <2>7 DEF Progress, Is
  <2> QED BY <2>2, <2>3, <2>4, <2>7, <2>8, Prepares DEF Support, Is, Working
<1> QED BY <1>1, <1>2, <1>3 DEF Support

LEMMA WrittenStep ==
  ASSUME IInv, NEW i \in Installers, Written(i)
  PROVE  IInv'
<1> DEFINE s == [installer[i] EXCEPT !.at = installer[i].next]
<1>1. installer[i] \in InstallerType /\ installer[i].got = "good"
  BY DEF IInv, TypeOK, Verifying
<1>2. /\ s.got = "good" /\ s.job = installer[i].job
      /\ s.phase = installer[i].phase /\ s.at = installer[i].next
      /\ s.todo = installer[i].todo /\ s.next = installer[i].next
      /\ s.at \in {"support", "receipt"} /\ s \in InstallerType
  BY <1>1 DEF InstallerType, Stages
<1>3. installer' = [installer EXCEPT ![i] = s]
  BY DEF Written, To, AfterFiles
<1> HIDE DEF s
<1>4. installer'[i] = s
  BY <1>3 DEF IInv, TypeOK
<1>5. Output(i)' = Output(i) /\ Target(i)' = Target(i)
  BY <1>2, <1>4 DEF Output, Job, Target
<1>6. /\ disk' = disk /\ disk[Output(i)].receipt = "none"
      /\ Is(i, "write") /\ installer[i].todo = {}
  BY DEF Written, IInv, Progress, Is
<1>7. Progress(i)'
  BY <1>2, <1>4, <1>5, <1>6 DEF Progress, Is, IInv
<1> QED BY <1>2, <1>3, <1>6, <1>7, Prepares DEF Is, Working

\* The directory an acquisition works on is there and its own.
LEMMA Owned ==
  ASSUME IInv, NEW i \in Installers, installer[i].at \in Working
  PROVE  /\ Output(i) \in Paths /\ disk[Output(i)] \in Directory
         /\ disk[Output(i)].there /\ disk[Output(i)].by = i
         /\ disk[Output(i)].sound
         /\ Mine(i) = Earlier(i) \cup {Output(i)}
         /\ Late(i) => Job(i).native # Output(i)
<1>1. Output(i) \in Paths /\ (Late(i) => Job(i).native # Output(i))
  BY Outputs DEF IInv, Late
<1>2. Mine(i) = Earlier(i) \cup {Output(i)}
  BY DEF IInv, Holding
<1> QED BY <1>1, <1>2 DEF Mine, IInv, TypeOK, Verifying

\* The effect of a step within an acquisition that stays in it.
LEMMA Works ==
  ASSUME IInv, NEW i \in Installers, installer[i].at \in Working, TypeOK',
         \A j \in Installers \ {i} : installer'[j] = installer[j],
         \A q \in Paths \ {Output(i)} : disk'[q] = disk[q],
         disk'[Output(i)].there, disk'[Output(i)].by = i,
         disk'[Output(i)].sound, disk'[Output(i)].receipt # "complete",
         installer'[i].got = "good", installer'[i].at \in Working,
         installer'[i].job = installer[i].job,
         installer'[i].phase = installer[i].phase, Progress(i)'
  PROVE  IInv'
<1> DEFINE p == Output(i)
<1>1. p \in Paths /\ disk[p].by = i /\ Mine(i) = Earlier(i) \cup {p}
  BY Owned
<1>2. Output(i)' = p /\ Earlier(i)' = Earlier(i) /\ Late(i)' = Late(i)
  BY DEF Output, Job, Earlier, Late
<1> HIDE DEF p
<1>3. p = Output(i)
  BY DEF p
<1>4. Mine(i)' = Earlier(i) \cup {p}
  BY <1>1, <1>3, MineAfter
<1>5. Holding(i)'
  BY <1>2, <1>4 DEF Holding, Is, Working
<1> QED BY <1>1, <1>3, <1>5, Changes

LEMMA WriteStep ==
  ASSUME IInv, NEW i \in Installers, Write(i)
  PROVE  IInv'
<1> DEFINE p == Output(i)
<1>1. installer[i].at \in Working
  BY DEF Write, Is, Working
<1>2. CASE installer' = To(i, "cleanup") /\ UNCHANGED disk
  BY <1>1, <1>2, Breaks
<1>3. ASSUME NEW f \in installer[i].todo,
             disk' = [disk EXCEPT ![p].files = @ \cup {f},
                        ![p].sound = @ /\ installer[i].got = "good"],
             installer' = [installer EXCEPT ![i].todo = @ \ {f}]
      PROVE  IInv'
  <2>1. /\ p \in Paths /\ disk[p] \in Directory /\ disk[p].there
        /\ disk[p].by = i /\ disk[p].sound
    BY <1>1, Owned
  <2>2. installer[i] \in InstallerType /\ installer[i].got = "good"
    BY DEF IInv, TypeOK, Verifying
  <2>3. f \in AllFiles
    BY <2>2 DEF InstallerType
  <2>4. /\ \A j \in Installers \ {i} : installer'[j] = installer[j]
        /\ installer'[i].at = installer[i].at /\ installer'[i].got = "good"
        /\ installer'[i].job = installer[i].job
        /\ installer'[i].phase = installer[i].phase
        /\ installer'[i].next = installer[i].next
        /\ installer'[i].todo = installer[i].todo \ {f}
        /\ installer' \in [Installers -> InstallerType]
    BY <1>3, <2>2 DEF IInv, TypeOK, InstallerType
  <2>5. disk \in [Paths -> Directory]
    BY DEF IInv, TypeOK
  <2> HIDE DEF p
  <2>6. /\ \A q \in Paths \ {p} : disk'[q] = disk[q]
        /\ disk'[p].there /\ disk'[p].by = i /\ disk'[p].sound
        /\ disk'[p].receipt = disk[p].receipt
        /\ disk'[p].files = disk[p].files \cup {f}
        /\ disk' \in [Paths -> Directory]
    BY <1>3, <2>1, <2>2, <2>3, <2>5 DEF Directory
  <2>7. TypeOK'
    BY <2>4, <2>6 DEF TypeOK
  <2>8. Output(i)' = p /\ Target(i)' = Target(i)
    BY <2>4 DEF p, Output, Target, Job
  <2>9. /\ Is(i, "write") /\ disk[p].receipt = "none"
        /\ IF installer[i].next = "support"
           THEN Target(i) \subseteq disk[p].files \cup installer[i].todo \cup {"index"}
           ELSE Target(i) \subseteq disk[p].files \cup installer[i].todo
    BY DEF Write, IInv, Progress, Is, p
  <2>10. Progress(i)'
    BY <2>4, <2>6, <2>8, <2>9 DEF Progress, Is
  <2> QED BY <1>1, <2>4, <2>6, <2>7, <2>9, <2>10, Works DEF p
<1> QED BY <1>2, <1>3 DEF Write

LEMMA BeginReceiptStep ==
  ASSUME IInv, NEW i \in Installers, BeginReceipt(i)
  PROVE  IInv'
<1> DEFINE p == Output(i)
<1>1. installer[i].at \in Working
  BY DEF BeginReceipt, Is, Working
<1>2. CASE installer' = To(i, "cleanup") /\ UNCHANGED disk
  BY <1>1, <1>2, Breaks
<1>3. CASE /\ disk' = [disk EXCEPT ![p].receipt = "partial"]
           /\ installer' = To(i, "seal")
  <2>1. /\ p \in Paths /\ disk[p] \in Directory /\ disk[p].there
        /\ disk[p].by = i /\ disk[p].sound
    BY <1>1, Owned
  <2>2. installer[i] \in InstallerType /\ installer[i].got = "good"
    BY DEF IInv, TypeOK, Verifying
  <2>4. /\ \A j \in Installers \ {i} : installer'[j] = installer[j]
        /\ installer'[i].at = "seal" /\ installer'[i].got = "good"
        /\ installer'[i].job = installer[i].job
        /\ installer'[i].phase = installer[i].phase
        /\ installer' \in [Installers -> InstallerType]
    BY <1>3, <2>2 DEF To, IInv, TypeOK, InstallerType, Stages
  <2>5. disk \in [Paths -> Directory]
    BY DEF IInv, TypeOK
  <2> HIDE DEF p
  <2>6. /\ \A q \in Paths \ {p} : disk'[q] = disk[q]
        /\ disk'[p].there /\ disk'[p].by = i /\ disk'[p].sound
        /\ disk'[p].receipt = "partial" /\ disk'[p].files = disk[p].files
        /\ disk' \in [Paths -> Directory]
    BY <1>3, <2>1, <2>5 DEF Directory
  <2>7. TypeOK'
    BY <2>4, <2>6 DEF TypeOK
  <2>8. Output(i)' = p /\ Target(i)' = Target(i)
    BY <2>4 DEF p, Output, Target, Job
  <2>9. Target(i) \subseteq disk[p].files
    BY DEF BeginReceipt, IInv, Progress, Is, p
  <2>10. Progress(i)'
    BY <2>4, <2>6, <2>8, <2>9 DEF Progress, Is
  <2>11. installer'[i].at \in Working
    BY <2>4 DEF Working
  <2> QED BY <1>1, <2>4, <2>6, <2>7, <2>10, <2>11, Works DEF p
<1> QED BY <1>2, <1>3 DEF BeginReceipt

\* Whether a receipt is complete is decided here alone.
LEMMA SealStep ==
  ASSUME IInv, NEW i \in Installers, Seal(i)
  PROVE  IInv'
<1> DEFINE p == Output(i)
<1>1. installer[i].at \in Working
  BY DEF Seal, Is, Working
<1>2. CASE installer' = To(i, "cleanup") /\ UNCHANGED disk
  BY <1>1, <1>2, Breaks
<1>3. CASE /\ disk' = [disk EXCEPT ![p].receipt = "complete",
                        ![p].claims =
                          IF installer[i].phase = "native" THEN NativeFiles
                          ELSE DataFiles \cup (IF Job(i).gener THEN {"index"}
                                               ELSE {})]
           /\ installer' =
                IF Job(i).kind = "setup" /\ installer[i].phase = "native"
                THEN [installer EXCEPT ![i].phase = "data", ![i].at = "check"]
                ELSE To(i, "installed")
  <2>1. /\ p \in Paths /\ disk[p] \in Directory /\ disk[p].there
        /\ disk[p].by = i /\ disk[p].sound
        /\ Mine(i) = Earlier(i) \cup {p}
    BY <1>1, Owned
  <2>2. installer[i] \in InstallerType /\ installer[i].got = "good"
    BY DEF IInv, TypeOK, Verifying
  <2>3. Target(i) \subseteq disk[p].files /\ Target(i) \subseteq AllFiles
    BY DEF Seal, IInv, Progress, Is, Target, AllFiles
  <2>4. disk \in [Paths -> Directory]
    BY DEF IInv, TypeOK
  <2>5. disk' = [disk EXCEPT ![p].receipt = "complete",
                             ![p].claims = Target(i)]
    BY <1>3 DEF Target
  <2>6. /\ \A j \in Installers \ {i} : installer'[j] = installer[j]
        /\ installer'[i].got = "good" /\ installer'[i].job = installer[i].job
        /\ \/ /\ Job(i).kind = "setup" /\ installer[i].phase = "native"
              /\ installer'[i].phase = "data" /\ installer'[i].at = "check"
           \/ installer'[i].at = "installed"
        /\ installer' \in [Installers -> InstallerType]
    BY <1>3, <2>2 DEF To, IInv, TypeOK, InstallerType, Stages, Ends
  <2>7. /\ Job(i).kind = "setup" /\ installer[i].phase = "native"
           => Earlier(i) = {} /\ p = Job(i).native
    BY DEF Earlier, Late, Output
  <2> HIDE DEF p
  <2>8. /\ \A q \in Paths \ {p} : disk'[q] = disk[q]
        /\ disk'[p].there /\ disk'[p].by = i /\ disk'[p].sound
        /\ disk'[p].files = disk[p].files /\ disk'[p].claims = Target(i)
        /\ disk' \in [Paths -> Directory]
    BY <2>1, <2>3, <2>4, <2>5 DEF Directory
  <2>9. TypeOK'
    BY <2>6, <2>8 DEF TypeOK
  <2>10. Mine(i)' = Mine(i)
    BY <2>1, <2>8, MineAfter
  <2>11. Holding(i)'
    BY <2>1, <2>6, <2>7, <2>10 DEF Holding, Is, Earlier, Late, Job, Working
  <2>12. Progress(i)'
    BY <2>6 DEF Progress, Is
  <2> QED BY <2>1, <2>3, <2>6, <2>8, <2>9, <2>11, <2>12, Changes
<1> QED BY <1>2, <1>3 DEF Seal

----------------------------------------------------------------------------
(* Taking back.                                                            *)

LEMMA Removes ==
  ASSUME TypeOK, NEW p \in Paths, RemoveEntry(p)
  PROVE  /\ \A q \in Paths \ {p} : disk'[q] = disk[q]
         /\ disk' \in [Paths -> Directory]
         /\ disk'[p].there = disk[p].there /\ disk'[p].by = disk[p].by
         /\ disk'[p].sound = disk[p].sound /\ disk'[p].undone = disk[p].undone
         /\ disk'[p].receipt \in {disk[p].receipt, "none"}
<1>1. disk[p] \in Directory /\ disk \in [Paths -> Directory]
  BY DEF TypeOK
<1>2. CASE \E f \in disk[p].files : disk' = [disk EXCEPT ![p].files = @ \ {f}]
  BY <1>1, <1>2 DEF Directory
<1>3. CASE disk' = [disk EXCEPT ![p].receipt = "none", ![p].claims = {}]
  BY <1>1, <1>3 DEF Directory
<1> QED BY <1>2, <1>3 DEF RemoveEntry

LEMMA Vanishes ==
  ASSUME TypeOK, NEW p \in Paths, disk' = [disk EXCEPT ![p] = NoDirectory]
  PROVE  /\ \A q \in Paths \ {p} : disk'[q] = disk[q]
         /\ disk' \in [Paths -> Directory]
         /\ ~ disk'[p].there /\ disk'[p].sound /\ disk'[p].receipt = "none"
BY NewDirectories DEF TypeOK

LEMMA CleanupStep ==
  ASSUME IInv, NEW i \in Installers, Cleanup(i)
  PROVE  IInv'
<1> DEFINE p == Output(i)
<1>1. installer[i].at \in Working /\ installer[i].at = "cleanup"
      /\ disk[p].receipt # "complete"
  BY DEF Cleanup, Is, Working, IInv, Progress
<1>2. /\ p \in Paths /\ disk[p].there /\ disk[p].by = i /\ disk[p].sound
      /\ Mine(i) = Earlier(i) \cup {p} /\ (Late(i) => Job(i).native # p)
  BY <1>1, Owned
<1>3. TypeOK /\ installer[i].got = "good"
  BY DEF IInv, Verifying
<1>4. CASE RemoveEntry(p) /\ UNCHANGED installer
  <2>1. Output(i)' = p
    BY <1>4 DEF Output, Job
  <2> HIDE DEF p
  <2>2. /\ \A q \in Paths \ {p} : disk'[q] = disk[q]
        /\ disk'[p].there /\ disk'[p].by = i /\ disk'[p].sound
        /\ disk'[p].receipt # "complete" /\ TypeOK'
    BY <1>1, <1>2, <1>3, <1>4, Removes DEF TypeOK
  <2>3. Progress(i)'
    BY <1>1, <1>4, <2>1, <2>2 DEF Progress, Is
  <2> QED BY <1>1, <1>3, <1>4, <2>2, <2>3, Works DEF p
<1>5. CASE /\ disk' = [disk EXCEPT ![p] = NoDirectory]
           /\ installer' = To(i, AfterFailure(i))
  <2>1. /\ \A j \in Installers \ {i} : installer'[j] = installer[j]
        /\ installer'[i].got = "good" /\ installer'[i].job = installer[i].job
        /\ installer'[i].phase = installer[i].phase
        /\ installer'[i].at = (IF Late(i) THEN "rollback" ELSE "failed")
        /\ installer' \in [Installers -> InstallerType]
    BY <1>3, <1>5
       DEF To, AfterFailure, Late, TypeOK, InstallerType, Stages, Ends
  <2> HIDE DEF p
  <2>2. /\ \A q \in Paths \ {p} : disk'[q] = disk[q]
        /\ ~ disk'[p].there /\ disk'[p].sound /\ disk'[p].receipt = "none"
        /\ disk' \in [Paths -> Directory]
    BY <1>2, <1>3, <1>5, Vanishes
  <2>3. Mine(i)' = Earlier(i)
    BY <1>2, <2>2, MineAfter DEF Earlier
  <2>4. Job(i)' = Job(i) /\ Late(i)' = Late(i)
    BY <2>1 DEF Job, Late
  <2>5. Holding(i)'
    BY <2>1, <2>3, <2>4 DEF Holding, Is, Earlier, Working
  <2>6. Progress(i)'
    BY <2>1 DEF Progress, Is
  <2>7. TypeOK'
    BY <2>1, <2>2 DEF TypeOK
  <2> QED BY <1>2, <2>1, <2>2, <2>5, <2>6, <2>7, Changes
<1>6. CASE /\ installer' = To(i, IF AfterFailure(i) = "rollback" THEN "rollback"
                                 ELSE "uncleaned")
           /\ UNCHANGED disk
  <2> DEFINE s == IF Late(i) THEN "rollback" ELSE "uncleaned"
  <2>1. installer' = To(i, s) /\ s \in Stages \cup Ends
    BY <1>6 DEF AfterFailure, Late, Stages, Ends
  <2>2. Late(i) => p = Job(i).data
    BY <1>3, Outputs
  <2> HIDE DEF s, p
  <2>3. /\ installer'[i].at = s /\ Mine(i)' = Mine(i)
        /\ Late(i)' = Late(i) /\ Job(i)' = Job(i)
    BY <1>6, <2>1, Turned
  <2>4. Holding(i)'
    BY <1>2, <2>2, <2>3 DEF Holding, Is, Earlier, Working, s
  <2>5. Progress(i)'
    BY <2>3 DEF Progress, Is, s
  <2> QED BY <1>6, <2>1, <2>4, <2>5, TurnedOn
<1> QED BY <1>4, <1>5, <1>6 DEF Cleanup

\* What a rollback starts from: the library is there and its own.
LEMMA TakesBack ==
  ASSUME IInv, NEW i \in Installers, Is(i, "rollback")
  PROVE  /\ Late(i) /\ Job(i).native \in Paths /\ Job(i).data \in Paths
         /\ Job(i).native # Job(i).data
         /\ disk[Job(i).native].there /\ disk[Job(i).native].by = i
         /\ disk[Job(i).native].sound /\ disk[Job(i).native] \in Directory
         /\ Job(i).native \in Mine(i)
         /\ Mine(i) \subseteq {Job(i).native, Job(i).data}
<1>1. /\ Late(i) /\ Job(i).native \in Mine(i)
      /\ Mine(i) \subseteq {Job(i).native, Job(i).data}
  BY DEF IInv, Holding
<1>2. /\ Job(i).native \in Paths /\ Job(i).data \in Paths
      /\ Job(i).native # Job(i).data
  BY <1>1, Outputs DEF IInv, Late
<1> QED BY <1>1, <1>2 DEF Mine, IInv, TypeOK, Verifying

LEMMA RollbackStep ==
  ASSUME IInv, NEW i \in Installers, Rollback(i)
  PROVE  IInv'
<1> DEFINE p == Job(i).native
           d == Job(i).data
<1>1. /\ Late(i) /\ p \in Paths /\ d \in Paths /\ p # d
      /\ disk[p].there /\ disk[p].by = i /\ disk[p].sound
      /\ disk[p] \in Directory
      /\ p \in Mine(i) /\ Mine(i) \subseteq {p, d}
  BY TakesBack DEF Rollback
<1>2. TypeOK /\ installer[i].got = "good" /\ installer[i].at = "rollback"
  BY DEF IInv, Verifying, Rollback, Is
<1>3. ASSUME UNCHANGED installer, disk' \in [Paths -> Directory],
             \A q \in Paths \ {p} : disk'[q] = disk[q],
             disk'[p].there, disk'[p].by = i, disk'[p].sound, disk'[p].undone
      PROVE  IInv'
  <2>1. Job(i)' = Job(i) /\ Late(i)' = Late(i)
    BY <1>3 DEF Job, Late
  <2>2. Mine(i)' = Mine(i)
    BY <1>1, <1>3, MineAfter
  <2>3. Holding(i)'
    BY <1>1, <1>2, <1>3, <2>1, <2>2 DEF Holding, Is, Working
  <2>4. Progress(i)'
    BY <1>2, <1>3 DEF Progress, Is
  <2>5. TypeOK'
    BY <1>2, <1>3 DEF TypeOK
  <2> QED BY <1>1, <1>2, <1>3, <2>3, <2>4, <2>5, Changes
<1>4. CASE disk' = [disk EXCEPT ![p].undone = TRUE] /\ UNCHANGED installer
  <2> HIDE DEF p, d
  <2>1. /\ disk' \in [Paths -> Directory] /\ disk'[p].undone
        /\ \A q \in Paths \ {p} : disk'[q] = disk[q]
        /\ disk'[p].there /\ disk'[p].by = i /\ disk'[p].sound
    BY <1>1, <1>2, <1>4 DEF TypeOK, Directory
  <2> QED BY <1>3, <1>4, <2>1
<1>5. CASE disk[p].undone /\ RemoveEntry(p) /\ UNCHANGED installer
  <2> HIDE DEF p, d
  <2> QED BY <1>1, <1>2, <1>3, <1>5, Removes
<1>6. CASE /\ disk' = [disk EXCEPT ![p] = NoDirectory]
           /\ installer' = To(i, IF disk[d].there /\ disk[d].by = i
                                 THEN "uncleaned" ELSE "failed")
  <2>1. /\ \A j \in Installers \ {i} : installer'[j] = installer[j]
        /\ installer'[i].got = "good"
        /\ installer'[i].at = (IF disk[d].there /\ disk[d].by = i
                               THEN "uncleaned" ELSE "failed")
        /\ installer' \in [Installers -> InstallerType]
    BY <1>2, <1>6 DEF To, TypeOK, InstallerType, Ends
  <2> HIDE DEF p, d
  <2>2. /\ \A q \in Paths \ {p} : disk'[q] = disk[q]
        /\ ~ disk'[p].there /\ disk'[p].sound /\ disk'[p].receipt = "none"
        /\ disk' \in [Paths -> Directory]
    BY <1>1, <1>2, <1>6, Vanishes
  <2>3. ~ (disk[d].there /\ disk[d].by = i) => Mine(i)' = {}
    BY <1>1, <2>2, MineAfter DEF Mine
  <2>4. Holding(i)'
    BY <2>1, <2>3 DEF Holding, Is, Working
  <2>5. Progress(i)'
    BY <2>1 DEF Progress, Is
  <2>6. TypeOK'
    BY <2>1, <2>2 DEF TypeOK
  <2> QED BY <1>1, <2>1, <2>2, <2>4, <2>5, <2>6, Changes
<1>7. CASE installer' = To(i, "uncleaned") /\ UNCHANGED disk
  <2>1. "uncleaned" \in Stages \cup Ends
    BY DEF Ends
  <2>2. installer'[i].at = "uncleaned"
    BY <1>7, <2>1, Turned
  <2>3. Holding(i)' /\ Progress(i)'
    BY <2>2 DEF Holding, Progress, Is, Working
  <2> QED BY <1>7, <2>1, <2>3, TurnedOn
<1> QED BY <1>4, <1>5, <1>6, <1>7 DEF Rollback

----------------------------------------------------------------------------
LEMMA NextIInv == IInv /\ [Next]_vars => IInv'
<1> SUFFICES ASSUME IInv, [Next]_vars PROVE IInv'
  OBVIOUS
<1>1. CASE UNCHANGED vars
  <2>1. TypeOK' /\ Verifying' /\ ReceiptMeansComplete'
    BY <1>1 DEF vars, IInv, TypeOK, Verifying, ReceiptMeansComplete
  <2>2. ASSUME NEW i \in Installers PROVE Holding(i)' /\ Progress(i)'
    <3>1. /\ Mine(i)' = Mine(i) /\ Output(i)' = Output(i) /\ Late(i)' = Late(i)
          /\ Earlier(i)' = Earlier(i) /\ Target(i)' = Target(i)
          /\ Job(i)' = Job(i)
      BY <1>1 DEF vars, Mine, Output, Late, Earlier, Target, Job
    <3>2. disk' = disk /\ installer' = installer
      BY <1>1 DEF vars
    <3>3. Holding(i)'
      BY <3>1, <3>2 DEF IInv, Holding, Is
    <3> QED BY <3>1, <3>2, <3>3 DEF IInv, Progress, Is
  <2> QED BY <2>1, <2>2 DEF IInv
<1> QED BY <1>1, PrecheckStep, CheckStep, MkdirStep, DownloadStep, SupportStep,
           WriteStep, WrittenStep, BeginReceiptStep, SealStep, CleanupStep,
           RollbackStep, KillStep DEF Next, Step

\* Every directory has one owner, and what its owner knows of it is true.
THEOREM Invariance == Spec => []IInv
BY Initially, NextIInv, PTL DEF Spec

\* A complete receipt vouches for verified files that are all there, after
\* any failures, kills and races (data_internal.ts:394-449).
THEOREM ReceiptRight == Spec => []ReceiptMeansComplete
<1>1. IInv => ReceiptMeansComplete
  BY DEF IInv
<1> QED BY <1>1, Invariance, PTL

\* An installer that reports a failure, and not that cleaning up failed,
\* leaves nothing behind (setup_internal.ts:107-118).
THEOREM FailureRight == Spec => []FailureLeavesNothing
<1>1. IInv => FailureLeavesNothing
  BY DEF IInv, Holding, Mine, FailureLeavesNothing, Is
<1> QED BY <1>1, Invariance, PTL

\* No step of an installer changes a directory another has made, however
\* the two come to the same path (data_internal.ts:390-393).
LEMMA OwnOnly ==
  ASSUME IInv, NEW i \in Installers, Step(i), NEW p \in Paths,
         disk[p].there, disk'[p] # disk[p]
  PROVE  disk[p].by = i
<1>0. disk \in [Paths -> Directory]
  BY DEF IInv, TypeOK
<1>1. CASE Precheck(i) \/ Check(i) \/ Download(i) \/ Support(i) \/ Written(i)
  BY <1>1 DEF Precheck, Check, Download, Support, Written
<1>2. CASE Mkdir(i)
  BY <1>0, <1>2 DEF Mkdir, MkdirSucceeds
<1>3. CASE Write(i) \/ BeginReceipt(i) \/ Seal(i)
  <2>1. installer[i].at \in Working
    BY <1>3 DEF Write, BeginReceipt, Seal, Is, Working
  <2>2. p # Output(i) => disk'[p] = disk[p]
    BY <1>0, <1>3 DEF Write, BeginReceipt, Seal
  <2> QED BY <2>1, <2>2, Owned
<1>4. CASE Cleanup(i)
  <2>1. installer[i].at \in Working
    BY <1>4 DEF Cleanup, Is, Working
  <2>2. p # Output(i) => disk'[p] = disk[p]
    BY <1>0, <1>4 DEF Cleanup, RemoveEntry
  <2> QED BY <2>1, <2>2, Owned
<1>5. CASE Rollback(i)
  <2>1. p # Job(i).native => disk'[p] = disk[p]
    BY <1>0, <1>5 DEF Rollback, RemoveEntry
  <2> QED BY <1>5, <2>1, TakesBack DEF Rollback
<1> QED BY <1>1, <1>2, <1>3, <1>4, <1>5 DEF Step

THEOREM OthersKept == Spec => OthersUntouched
<1>1. IInv /\ [Next]_vars =>
        [\A i \in Installers : Step(i) =>
           \A p \in Paths : disk[p].there /\ disk'[p] # disk[p]
                              => disk[p].by = i]_vars
  BY OwnOnly
<1> QED BY <1>1, Invariance, PTL DEF Spec, OthersUntouched
=============================================================================
