---------------------------- MODULE Installation ----------------------------
(***************************************************************************)
(* The installers of the JavaScript packages: acquireMorpheusNative,       *)
(* acquireMorpheusData and setupMorpheus, which runs both, in their Deno   *)
(* and Node.js versions (bindings/js/deno/internal, bindings/js/node/      *)
(* internal, bindings/js/data/internal).                                   *)
(*                                                                         *)
(* An acquisition makes its output directory, downloads and verifies an    *)
(* archive, writes the files one after another and a receipt last.  Any    *)
(* failure removes the directory; a failure of the data makes setup remove *)
(* the native library too.  Several installers may run at once on the same *)
(* paths, and each may be killed between any two steps.                    *)
(*                                                                         *)
(* The contents of a tree are a few files; a path is a directory that      *)
(* contains no other.  Arguments that are refused before anything is done  *)
(* are left out.                                                           *)
(***************************************************************************)
EXTENDS FiniteSets

CONSTANTS
  Installers,
  Paths,     \* output directories
  Jobs,      \* what an installer may be asked to do, a set of JobType
  User       \* who made a directory that was there before
ASSUME UserAssumption == User \notin Installers

\* kind: which entry point; native, data: its outputs; gener: withGener.
JobType == [kind : {"native", "data", "setup"}, native : Paths, data : Paths,
            gener : BOOLEAN, binding : {"deno", "node"}]
\* setupMorpheus refuses outputs that overlap.
ASSUME JobsAssumption ==
  /\ Jobs \subseteq JobType
  /\ \A j \in Jobs : j.kind = "setup" => j.native # j.data

VARIABLES
  disk,       \* the output directories
  installer   \* the installers
vars == <<disk, installer>>

NativeFiles == {"library", "alias"}
DataFiles == {"stems", "license"}
AllFiles == NativeFiles \cup DataFiles \cup {"index"}

\* by: who made the directory; sound: every file in it was verified;
\* claims: the files that a complete receipt vouches for; undone: setup has
\* begun to take the directory back.
Directory ==
  [there : BOOLEAN, by : Installers \cup {User}, files : SUBSET AllFiles,
   sound : BOOLEAN, receipt : {"none", "partial", "complete"},
   claims : SUBSET AllFiles, undone : BOOLEAN]
Blank(there, i) ==
  [there |-> there, by |-> i, files |-> {}, sound |-> TRUE,
   receipt |-> "none", claims |-> {}, undone |-> FALSE]
NoDirectory == Blank(FALSE, User)
Made(i) == Blank(TRUE, i)

\* phase: which acquisition an installer is in; got: what it downloaded;
\* todo: files to be written now; next: the stage after them.
Stages == {"precheck", "check", "mkdir", "download", "support", "write",
           "receipt", "seal", "cleanup", "rollback"}
Ends == {"installed", "failed", "uncleaned", "killed"}
InstallerType ==
  [job : Jobs, phase : {"native", "data"}, at : Stages \cup Ends,
   got : {"good", "bad"}, todo : SUBSET AllFiles, next : {"support", "receipt"}]

Init ==
  /\ disk \in [Paths -> {NoDirectory, Made(User)}]
  /\ installer \in [Installers ->
       {[job |-> j, phase |-> IF j.kind = "data" THEN "data" ELSE "native",
         at |-> IF j.kind = "setup" THEN "precheck" ELSE "check",
         got |-> "good", todo |-> {}, next |-> "receipt"] : j \in Jobs}]

Job(i) == installer[i].job
Output(i) == IF installer[i].phase = "native" THEN Job(i).native ELSE Job(i).data
Is(i, stage) == installer[i].at = stage
To(i, stage) == [installer EXCEPT ![i].at = stage]
Gener(i) == installer[i].phase = "data" /\ Job(i).gener

----------------------------------------------------------------------------
(* An acquisition.                                                         *)

\* Where an acquisition goes that failed before it made its directory, and
\* after it has cleaned up: setup takes the native library back when the
\* data failed.  Mutant: it does not.
NoRollback(i) == "failed"
AfterFailure(i) ==
  IF Job(i).kind = "setup" /\ installer[i].phase = "data"
  THEN "rollback" ELSE "failed"

\* setupMorpheus: both outputs must be absent.  Nothing relies on what it
\* saw, so that the two looks are one step.
Precheck(i) ==
  /\ Is(i, "precheck")
  /\ installer' = To(i, IF disk[Job(i).native].there \/ disk[Job(i).data].there
                        THEN "failed" ELSE "check")
  /\ UNCHANGED disk

\* pathExists.
Check(i) ==
  /\ Is(i, "check")
  /\ installer' = To(i, IF disk[Output(i)].there THEN AfterFailure(i)
                        ELSE "mkdir")
  /\ UNCHANGED disk

\* Whether mkdir makes a directory.  Mutant: it accepts one that is there.
MkdirRecursive(p) == TRUE
MkdirSucceeds(p) == ~disk[p].there

\* mkdir, before the try block: a failure removes nothing.
Mkdir(i) ==
  /\ Is(i, "mkdir")
  /\ \/ /\ MkdirSucceeds(Output(i))
        /\ disk' = IF disk[Output(i)].there THEN disk
                   ELSE [disk EXCEPT ![Output(i)] = Made(i)]
        /\ installer' = To(i, "download")
     \/ /\ installer' = To(i, AfterFailure(i))
        /\ UNCHANGED disk

\* Whether the digest of a download is compared.  Mutant: it is not.
VerifiesNothing(got) == TRUE
Verified(got) == got = "good"

\* The archive is fetched and verified.  The files follow; Node.js acquires
\* what the index needs before it writes anything, Deno after the files.
Download(i) ==
  /\ Is(i, "download")
  /\ \/ \E got \in {"good", "bad"} :
          installer' =
            [installer EXCEPT ![i] =
               IF ~Verified(got) THEN [@ EXCEPT !.at = "cleanup"]
               ELSE [@ EXCEPT !.got = got,
                       !.at = IF Gener(i) /\ Job(i).binding = "node"
                              THEN "support" ELSE "write",
                       !.todo = IF installer[i].phase = "native" THEN NativeFiles
                                ELSE DataFiles,
                       !.next = IF Gener(i) /\ Job(i).binding = "deno"
                                THEN "support" ELSE "receipt"]]
     \/ installer' = To(i, "cleanup")
  /\ UNCHANGED disk

\* prepareGenerIndex with its second download: the index joins the files
\* to be written.
Support(i) ==
  /\ Is(i, "support")
  /\ \/ \E got \in {"good", "bad"} :
          installer' =
            [installer EXCEPT ![i] =
               IF ~Verified(got) THEN [@ EXCEPT !.at = "cleanup"]
               ELSE [@ EXCEPT !.at = "write", !.next = "receipt",
                       !.todo = installer[i].todo \cup {"index"},
                       !.got = IF got = "bad" THEN "bad" ELSE installer[i].got]]
     \/ installer' = To(i, "cleanup")
  /\ UNCHANGED disk

\* One file; it is refused when it is there already.
Write(i) ==
  /\ Is(i, "write") /\ installer[i].todo # {}
  /\ \/ \E f \in installer[i].todo :
          /\ disk[Output(i)].there /\ f \notin disk[Output(i)].files
          /\ disk' = [disk EXCEPT ![Output(i)].files = @ \cup {f},
                        ![Output(i)].sound = @ /\ installer[i].got = "good"]
          /\ installer' = [installer EXCEPT ![i].todo = @ \ {f}]
     \/ installer' = To(i, "cleanup") /\ UNCHANGED disk

\* What comes after the files.  Mutant: the receipt does not wait for the
\* index.
ReceiptFirst(i) == "receipt"
AfterFiles(i) == installer[i].next
Written(i) ==
  /\ Is(i, "write") /\ installer[i].todo = {}
  /\ installer' = To(i, AfterFiles(i))
  /\ UNCHANGED disk

\* The receipt is created, and then filled.
BeginReceipt(i) ==
  /\ Is(i, "receipt")
  /\ \/ /\ disk[Output(i)].there /\ disk[Output(i)].receipt = "none"
        /\ disk' = [disk EXCEPT ![Output(i)].receipt = "partial"]
        /\ installer' = To(i, "seal")
     \/ installer' = To(i, "cleanup") /\ UNCHANGED disk
Seal(i) ==
  /\ Is(i, "seal")
  /\ \/ /\ disk[Output(i)].there
        /\ disk' = [disk EXCEPT ![Output(i)].receipt = "complete",
                      ![Output(i)].claims =
                        IF installer[i].phase = "native" THEN NativeFiles
                        ELSE DataFiles \cup (IF Job(i).gener THEN {"index"}
                                             ELSE {})]
        /\ installer' =
             IF Job(i).kind = "setup" /\ installer[i].phase = "native"
             THEN [installer EXCEPT ![i].phase = "data", ![i].at = "check"]
             ELSE To(i, "installed")
     \/ installer' = To(i, "cleanup") /\ UNCHANGED disk

----------------------------------------------------------------------------
(* Taking back.  A directory is removed entry by entry.                    *)

RemoveEntry(p) ==
  \/ \E f \in disk[p].files : disk' = [disk EXCEPT ![p].files = @ \ {f}]
  \/ /\ disk[p].receipt # "none"
     /\ disk' = [disk EXCEPT ![p].receipt = "none", ![p].claims = {}]
Emptied(p) == disk[p].files = {} /\ disk[p].receipt = "none"

\* The catch block of an acquisition.
Cleanup(i) ==
  /\ Is(i, "cleanup")
  /\ \/ RemoveEntry(Output(i)) /\ UNCHANGED installer
     \/ /\ Emptied(Output(i))
        /\ disk' = [disk EXCEPT ![Output(i)] = NoDirectory]
        /\ installer' = To(i, AfterFailure(i))
     \/ /\ installer' = To(i, IF AfterFailure(i) = "rollback" THEN "rollback"
                              ELSE "uncleaned")
        /\ UNCHANGED disk

\* The catch block of setup.
Rollback(i) ==
  LET p == Job(i).native
  IN /\ Is(i, "rollback")
     /\ \/ ~disk[p].undone /\ disk' = [disk EXCEPT ![p].undone = TRUE]
                           /\ UNCHANGED installer
        \/ disk[p].undone /\ RemoveEntry(p) /\ UNCHANGED installer
        \/ /\ disk[p].undone /\ Emptied(p)
           /\ disk' = [disk EXCEPT ![p] = NoDirectory]
           /\ installer' = To(i, IF disk[Job(i).data].there
                                    /\ disk[Job(i).data].by = i
                                 THEN "uncleaned" ELSE "failed")
        \/ installer' = To(i, "uncleaned") /\ UNCHANGED disk

Kill(i) ==
  /\ installer[i].at \in Stages
  /\ installer' = To(i, "killed")
  /\ UNCHANGED disk

Step(i) ==
  \/ Precheck(i) \/ Check(i) \/ Mkdir(i) \/ Download(i) \/ Support(i)
  \/ Write(i) \/ Written(i) \/ BeginReceipt(i) \/ Seal(i)
  \/ Cleanup(i) \/ Rollback(i)

Next == \E i \in Installers : Step(i) \/ Kill(i)

Spec == Init /\ [][Next]_vars

----------------------------------------------------------------------------
(* Properties.                                                             *)

\* Every variable keeps its type.
TypeOK ==
  /\ disk \in [Paths -> Directory]
  /\ installer \in [Installers -> InstallerType]

\* A complete receipt vouches for verified files that are all there, with
\* the index when it claims one: after failures, kills, and races of
\* installers for one path too.  Only a rollback of setup that was killed
\* half-way may leave a receipt without its files
\* (data_internal.ts:394-449, native_internal.ts:267-308).
ReceiptMeansComplete ==
  \A p \in Paths :
    disk[p].receipt = "complete" /\ ~disk[p].undone
      => disk[p].claims \subseteq disk[p].files /\ disk[p].sound

\* An installer that fails leaves nothing behind, the native library that
\* setup had installed before the data failed included, unless it reported
\* that cleaning up failed too (setup_internal.ts:107-118).
FailureLeavesNothing ==
  \A i \in Installers, p \in Paths :
    Is(i, "failed") => ~(disk[p].there /\ disk[p].by = i)

\* No installer changes or removes a directory that it has not made itself:
\* not that of a user, nor that of another installer that was faster
\* (data_internal.ts:390-393, native_internal.ts:263-266).
OthersUntouched ==
  [][\A i \in Installers : Step(i) =>
       \A p \in Paths : disk[p].there /\ disk'[p] # disk[p]
                          => disk[p].by = i]_vars
=============================================================================
