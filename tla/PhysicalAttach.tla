--------------------------- MODULE PhysicalAttach ---------------------------
(***************************************************************************)
(* scripts/ci/physical-attach.sh with its devices.sh, authorization.sh and *)
(* observation.sh: runs that borrow global resources of one host, give     *)
(* them back on every way out, and publish a report only if that worked.   *)
(*                                                                         *)
(* A run is one process.  Its commands are the rows of Script; a signal is *)
(* handled between two of them, and a command that fails ends the script   *)
(* in the same way, so that Interrupt stands for both.  Once the EXIT trap *)
(* has started the traps are reset, and a second signal kills; Kill also   *)
(* stands for SIGKILL.  What the script observes of devices, permits and   *)
(* frames can only make it fail, and is left out.                          *)
(***************************************************************************)
EXTENDS Naturals, Sequences

CONSTANTS
  Runs,      \* the processes, each of them started at most once
  Evidence,  \* Evidence[r]: the replay token of r's time evidence
  Site,      \* the owner of what is on the host before any run
  None

\* Names that every run uses for the same thing; the others carry its token.
Shared == {"can", "template"}

Private == {"serial", "vcan", "service", "denied", "attach", "security", "real"}

Resources == Shared \cup Private

ASSUME ConstantsAssumption ==
  /\ Site \notin Runs /\ None \notin Runs /\ Site # None

VARIABLES
  lock,      \* whose open file holds the flock
  owned,     \* owned[o]: the resources on the host that o created
  used,      \* the replay tokens that were made, by run
  report,    \* the run whose report is at the report path
  run        \* run[r]: the process

vars == <<lock, owned, used, report, run>>

Row(op, res) == [op |-> op, res |-> res]

\* The script from run_setup to finalize_run: "create" is the command, "flag"
\* the assignment that makes cleanup responsible, "identify" the one that
\* records what cleanup compares, "name" the one that makes it look.
Script == <<
  Row("lock", None),
  Row("create", "serial"), Row("flag", "serial"),
  Row("check", None),
  Row("create", "vcan"), Row("flag", "vcan"), Row("identify", "vcan"),
  Row("flag", "can"), Row("create", "can"),
  Row("create", "template"), Row("flag", "template"), Row("identify", "template"),
  Row("flag", "service"), Row("create", "service"),
  Row("name", "denied"), Row("create", "denied"), Row("flag", "denied"),
  Row("remove", "denied"), Row("forget", "denied"), Row("unflag", "denied"),
  Row("consume", None),
  Row("flag", "security"), Row("create", "security"),
  Row("create", "attach"), Row("flag", "attach"),
  Row("flag", "real"), Row("create", "real"),
  Row("finalize", None) >>

\* cleanup and cleanup_owned_host_resources, in their order.
Teardown == << "real", "security", "can", "denied", "attach", "service",
               "template", "vcan", "serial" >>

\* What cleanup compares before it removes a resource.
Compared == {"vcan", "template"}

\* Taken down by a command that is run, and may fail, even if nothing is there.
Commanded == {"real", "security", "can", "service"}

New == [phase |-> "new", at |-> 1, status |-> 0, flags |-> {}, identified |-> {},
        named |-> {"attach", "vcan", "service"}, pending |-> FALSE]

\* r finds something under the name that it uses for res.
Exists(r, res) ==
  IF res \in Shared THEN \E o \in Runs \cup {Site} : res \in owned[o]
                    ELSE res \in owned[r]

At(r, op) ==
  /\ run[r].phase = "script"
  /\ Script[run[r].at].op = op

Res(r) == Script[run[r].at].res

\* The process ends, and its variables with it.
Over(r, phase, status) ==
  run' = [run EXCEPT ![r] = [New EXCEPT !.phase = phase, !.status = status]]

\* Leave the script with a status and enter the EXIT trap.
Leave(r, status) ==
  run' = [run EXCEPT ![r].phase = "teardown", ![r].at = 1, ![r].status = status]

-----------------------------------------------------------------------------
(* The script. *)

\* prepare_report_destination and initialize_run, both before the lock.
Begin(r) ==
  /\ run[r].phase = "new"
  /\ report' = None
  /\ run' = [run EXCEPT ![r].phase = "script"]
  /\ UNCHANGED <<lock, owned, used>>

\* Mutant: the status of flock is not looked at.
AcquireAnyway(r) ==
  /\ At(r, "lock")
  /\ lock' = IF lock = None THEN r ELSE lock
  /\ run' = [run EXCEPT ![r].at = @ + 1]
  /\ UNCHANGED <<owned, used, report>>

\* flock --nonblock.
AcquireHostLock(r) ==
  /\ At(r, "lock")
  /\ IF lock = None
       THEN /\ lock' = r
            /\ run' = [run EXCEPT ![r].at = @ + 1]
       ELSE /\ Leave(r, 75)
            /\ UNCHANGED lock
  /\ UNCHANGED <<owned, used, report>>

\* Mutant: a template that is already there is replaced.
CheckHostNetworks(r) ==
  /\ At(r, "check")
  /\ IF Exists(r, "can")
       THEN Leave(r, 73)
       ELSE run' = [run EXCEPT ![r].at = @ + 1]
  /\ UNCHANGED <<lock, owned, used, report>>

\* prepare_vcan_gateway refuses names that are taken; only the shared ones can be.
CheckHost(r) ==
  /\ At(r, "check")
  /\ IF \E res \in Shared : Exists(r, res)
       THEN Leave(r, 73)
       ELSE run' = [run EXCEPT ![r].at = @ + 1]
  /\ UNCHANGED <<lock, owned, used, report>>

\* The command that makes a resource; under a shared name it replaces what is there.
Create(r) ==
  /\ At(r, "create")
  /\ owned' = [o \in Runs \cup {Site} |->
                 IF o = r THEN owned[o] \cup {Res(r)}
                          ELSE owned[o] \ (Shared \cap {Res(r)})]
  /\ run' = [run EXCEPT ![r].at = @ + 1]
  /\ UNCHANGED <<lock, used, report>>

\* The assignments that the EXIT trap will read.
Note(r) ==
  /\ \/ /\ At(r, "flag")
        /\ run' = [run EXCEPT ![r].flags = @ \cup {Res(r)}, ![r].at = @ + 1]
     \/ /\ At(r, "unflag")
        /\ run' = [run EXCEPT ![r].flags = @ \ {Res(r)}, ![r].at = @ + 1]
     \/ /\ At(r, "identify")
        /\ run' = [run EXCEPT ![r].identified = @ \cup {Res(r)}, ![r].at = @ + 1]
     \/ /\ At(r, "name")
        /\ run' = [run EXCEPT ![r].named = @ \cup {Res(r)}, ![r].at = @ + 1]
     \/ /\ At(r, "forget")
        /\ run' = [run EXCEPT ![r].named = @ \ {Res(r)}, ![r].at = @ + 1]
  /\ UNCHANGED <<lock, owned, used, report>>

\* The denied network goes as soon as it was tried.
RemoveNetwork(r) ==
  /\ At(r, "remove")
  /\ owned' = [owned EXCEPT ![r] = @ \ {Res(r)}]
  /\ run' = [run EXCEPT ![r].at = @ + 1]
  /\ UNCHANGED <<lock, used, report>>

\* Mutant: mkdir -p.
VerifyTimeEvidenceAgain(r) ==
  /\ At(r, "consume")
  /\ used' = [used EXCEPT ![r] = TRUE]
  /\ run' = [run EXCEPT ![r].at = @ + 1]
  /\ UNCHANGED <<lock, owned, report>>

\* mkdir of the replay token fails when it is there.
VerifyTimeEvidence(r) ==
  /\ At(r, "consume")
  /\ IF \E q \in Runs : used[q] /\ Evidence[q] = Evidence[r]
       THEN /\ Leave(r, 77)
            /\ UNCHANGED used
       ELSE /\ used' = [used EXCEPT ![r] = TRUE]
            /\ run' = [run EXCEPT ![r].at = @ + 1]
  /\ UNCHANGED <<lock, owned, report>>

\* All cases passed; the report is prepared beside its path.
FinalizeRun(r) ==
  /\ At(r, "finalize")
  /\ IF report # None
       THEN Leave(r, 73)
       ELSE run' = [run EXCEPT ![r].phase = "teardown", ![r].at = 1,
                               ![r].pending = TRUE]
  /\ UNCHANGED <<lock, owned, used, report>>

\* A command fails, or a signal is handled; 1 stands for every such status.
Interrupt(r) ==
  /\ run[r].phase = "script"
  /\ Leave(r, 1)
  /\ UNCHANGED <<lock, owned, used, report>>

-----------------------------------------------------------------------------
(* exit_with_cleanup. *)

\* The identity that cleanup compares was never recorded, or is not this run's.
Refused(r, res) ==
  /\ Exists(r, res)
  /\ \/ res \in Compared \ run[r].identified
     \/ res \notin owned[r]

\* Mutant: a teardown that fails does not count.
TearDownQuietly(r) ==
  /\ run[r].phase = "teardown"
  /\ run[r].at \in DOMAIN Teardown
  /\ LET res == Teardown[run[r].at]
     IN  \/ owned' = [owned EXCEPT ![r] = IF res \in run[r].flags THEN @ \ {res} ELSE @]
         \/ UNCHANGED owned
  /\ run' = [run EXCEPT ![r].at = @ + 1]
  /\ UNCHANGED <<lock, used, report>>

\* One resource: left alone without its flag, else removed, refused or not
\* removable, which is remembered.
TearDown(r) ==
  /\ run[r].phase = "teardown"
  /\ run[r].at \in DOMAIN Teardown
  /\ LET res == Teardown[run[r].at]
     IN  \/ /\ res \notin run[r].flags
            /\ run' = [run EXCEPT ![r].at = @ + 1]
            /\ UNCHANGED owned
         \/ /\ res \in run[r].flags
            /\ ~Refused(r, res)
            /\ owned' = [owned EXCEPT ![r] = @ \ {res}]
            /\ run' = [run EXCEPT ![r].at = @ + 1]
         \/ /\ res \in run[r].flags
            /\ Exists(r, res) \/ res \in Commanded
            /\ run' = [run EXCEPT ![r].at = @ + 1, ![r].status = 70]
            /\ UNCHANGED owned
  /\ UNCHANGED <<lock, used, report>>

\* What the checks at the end of cleanup_owned_host_resources look for.
Looked(r) ==
  run[r].named
    \cup (run[r].flags \cap {"can", "template", "serial"})

\* What remains is looked for, and the work directory removed, which may fail.
CheckResidue(r) ==
  /\ run[r].phase = "teardown"
  /\ run[r].at = Len(Teardown) + 1
  /\ \E status \in {run[r].status, 70} :
       /\ (\E res \in Looked(r) : Exists(r, res)) => status = 70
       /\ run' = [run EXCEPT ![r].phase = "publish", ![r].status = status]
  /\ UNCHANGED <<lock, owned, used, report>>

\* The report is moved to its path if nothing has gone wrong.
PublishReport(r) ==
  /\ run[r].phase = "publish"
  /\ IF run[r].status = 0 /\ run[r].pending /\ report = None
       THEN /\ report' = r
            /\ run' = [run EXCEPT ![r].phase = "confirm"]
       ELSE /\ run' = [run EXCEPT ![r].phase = "release", ![r].pending = FALSE,
                         ![r].status = IF run[r].status = 0 THEN 70 ELSE @]
            /\ UNCHANGED report
  /\ UNCHANGED <<lock, owned, used>>

\* Another run may have removed the report as its first deed.
ConfirmReport(r) ==
  /\ run[r].phase = "confirm"
  /\ run' = [run EXCEPT ![r].phase = "release", ![r].pending = FALSE,
                        ![r].status = IF report = None THEN 70 ELSE @]
  /\ UNCHANGED <<lock, owned, used, report>>

\* Mutant: only a successful run unlocks.
ReleaseAfterSuccess(r) ==
  /\ run[r].phase = "release"
  /\ lock' = IF lock = r /\ (run[r].status = 0 \/ "serial" \notin owned[r])
               THEN None ELSE lock
  /\ Over(r, "over", run[r].status)
  /\ UNCHANGED <<owned, used, report>>

\* flock --unlock frees the lock whoever else has inherited the file.
ReleaseHostLock(r) ==
  /\ run[r].phase = "release"
  /\ lock' = IF lock = r THEN None ELSE lock
  /\ Over(r, "over", run[r].status)
  /\ UNCHANGED <<owned, used, report>>

-----------------------------------------------------------------------------
(* The environment. *)

\* The process dies.  The serial bridge has inherited the open lock file.
Kill(r) ==
  /\ run[r].phase \notin {"new", "over", "killed"}
  /\ lock' = IF lock = r /\ "serial" \notin owned[r] THEN None ELSE lock
  /\ Over(r, "killed", 137)
  /\ UNCHANGED <<owned, used, report>>

\* The serial bridge ends by itself or is ended by somebody.
BridgeEnds(r) ==
  /\ "serial" \in owned[r]
  /\ owned' = [owned EXCEPT ![r] = @ \ {"serial"}]
  /\ lock' = IF lock = r /\ run[r].phase = "killed" THEN None ELSE lock
  /\ UNCHANGED <<used, report, run>>

-----------------------------------------------------------------------------
Init ==
  /\ lock = None
  /\ owned \in {[[o \in Runs \cup {Site} |-> {}] EXCEPT ![Site] = s] : s \in SUBSET Shared}
  /\ used = [r \in Runs |-> FALSE]
  /\ report = None
  /\ run = [r \in Runs |-> New]

Step(r) ==
  \/ AcquireHostLock(r) \/ CheckHost(r) \/ Create(r) \/ Note(r)
  \/ RemoveNetwork(r) \/ VerifyTimeEvidence(r) \/ FinalizeRun(r)
  \/ TearDown(r) \/ CheckResidue(r) \/ PublishReport(r) \/ ConfirmReport(r)
  \/ ReleaseHostLock(r)

Next ==
  \E r \in Runs : Begin(r) \/ Step(r) \/ Interrupt(r) \/ Kill(r) \/ BridgeEnds(r)

Spec == Init /\ [][Next]_vars

-----------------------------------------------------------------------------
(* Properties. *)

Phases == {"new", "script", "teardown", "publish", "confirm", "release", "over",
           "killed"}

TypeOK ==
  /\ lock \in Runs \cup {None}
  /\ owned \in [Runs \cup {Site} -> SUBSET Resources]
  /\ used \in [Runs -> BOOLEAN]
  /\ report \in Runs \cup {None}
  /\ run \in [Runs -> [phase : Phases, at : 1 .. Len(Script),
                       status : {0, 1, 70, 73, 75, 77, 137},
                       flags : SUBSET Resources, identified : SUBSET Compared,
                       named : SUBSET Resources, pending : BOOLEAN]]

\* "A successful report is published only after all run-owned host and container
\* resources have been removed": the run whose report is out owns nothing,
\* whichever command failed and whatever the signals.
ReportOnlyClean == report # None => owned[report] = {}

\* A run that ends by itself and leaves something behind says so with status 70.
\* A signal between socat or the installation of the template and the assignment
\* that follows it is the exception: those two may stay behind any status.
LeftoversTold ==
  \A r \in Runs :
    run[r].phase = "over" /\ run[r].status # 70 => owned[r] \subseteq {"serial", "template"}

\* What a run says of its end is so: a report of a clean host, any other status
\* but 70 of nothing left behind.
OutcomeTrue ==
  /\ ReportOnlyClean
  /\ LeftoversTold

\* Runs that work do so one at a time: while one has something on the host, and
\* still removes it, no other one has anything there.
OneAtATime ==
  \A r, q \in Runs :
    /\ run[r].phase \notin {"over", "killed"}
    /\ run[q].phase \notin {"over", "killed"}
    /\ owned[r] # {} /\ owned[q] # {}
    => r = q

\* Two reports never rest on one measurement of the host's time.
EvidenceOnce ==
  \A r, q \in Runs :
    /\ run[r].phase = "over" /\ run[r].status = 0
    /\ run[q].phase = "over" /\ run[q].status = 0
    /\ Evidence[r] = Evidence[q]
    => r = q

\* Nobody else's resources are touched: the site keeps what it has, and what a
\* run that is no more has left stays for a person to look at.
OthersUntouched ==
  [][/\ owned'[Site] = owned[Site]
     /\ \A r \in Runs :
          run[r].phase \in {"over", "killed"} => owned[r] \ {"serial"} \subseteq owned'[r]]_vars

\* A run that ends gives the lock back although its bridge has inherited it, and
\* one that was killed keeps it no longer than its bridge lives.
LockGivenBack ==
  \A r \in Runs :
    lock = r => /\ run[r].phase # "over"
                /\ run[r].phase = "killed" => "serial" \in owned[r]
=============================================================================
