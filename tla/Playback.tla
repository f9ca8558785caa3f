------------------------------ MODULE Playback ------------------------------
(***************************************************************************)
(* A finished capture made ready for playback, played, and bound to the    *)
(* result of the player (prepare-playback-inputs.py, verify-mcap-playback  *)
(* .sh, create-playback-provider.py).                                      *)
(*                                                                         *)
(* The files of the capture are read one at a time, several of them more   *)
(* than once, while they may be changed, taken away and put back.  The     *)
(* retained copies may be rewritten while a native program has them open,  *)
(* which never restores their bytes.                                       *)
(* A file is represented by the version of its bytes: "signed" is what the *)
(* source statement binds.  A "restated" summary has other bytes and still *)
(* names the signed recording; summaries that exchange their recordings    *)
(* are left out.                                                           *)
(***************************************************************************)
EXTENDS Integers, Sequences, FiniteSets, SequencesExt

CONSTANTS Segments,     \* recordings of the capture
          MaxEdits      \* bound: changes made by others

ASSUME PlaybackAssumption == Segments \in Nat \ {0} /\ MaxEdits \in Nat

File(name) == <<name, 0>>
Rec(i) == <<"recording", i>>
Sum(i) == <<"summary", i>>
Sums == {Sum(i) : i \in 1 .. Segments}
Pairs == {Rec(i) : i \in 1 .. Segments} \union Sums
Schema == File("schema")
Config == File("provider_configuration")

\* the files prepare selects, in the order it copies them
Recordings == [i \in 1 .. Segments |-> Rec(i)]
Summaries == [i \in 1 .. Segments |-> Sum(i)]
Members == [i \in 1 .. 2 * Segments |-> IF i % 2 = 1 THEN Rec((i + 1) \div 2) ELSE Sum(i \div 2)]
Selected == <<File("metadata"), File("context"), File("scenario"), File("runtime"),
              File("index"), File("statement"), File("qos"), File("writer")>> \o Members
Retained == ToSet(Selected) \union {Schema}

\* what is copied for the player and listed in the provider's configuration
Executed == <<File("metadata")>> \o Recordings \o <<File("replay_qos")>>
Provided == ToSet(Executed) \union {Config}

\* each of the files in turn, and for it one operation after the other
Each(ops, files) == [k \in 1 .. Len(ops) * Len(files) |->
                       <<ops[1 + ((k - 1) % Len(ops))], files[1 + ((k - 1) \div Len(ops))]>>]

(***************************************************************************)
(* The readings and writings of the three programs, in their order.        *)
(***************************************************************************)
SourceCapture ==
  Each(<<"admit">>, <<Schema>>)
  \o Each(<<"check">>, <<File("statement"), File("scenario"), File("runtime"),
                         File("metadata")>> \o Summaries \o Recordings
                       \o <<File("index")>> \o Members)
  \o Each(<<"identity">>, Recordings)
  \o Each(<<"expect">>, Members)
  \o Each(<<"check">>, <<File("context")>>)

\* prepare until it writes the first of its documents
Decoded ==
  SourceCapture
  \o Each(<<"mkdir">>, <<File("output")>>)
  \o Each(<<"same", "hash", "bytes", "compare">>, <<Schema>>)
  \o Each(<<"hash", "bytes", "compare">>, Selected)
  \o Each(<<"before">>, Selected \o <<Schema>>)
  \o Each(<<"lookup">>, Recordings)
  \o Each(<<"refer">>, <<File("metadata")>> \o Members)
  \o Each(<<"scan">>, Recordings)
  \o Each(<<"again">>, Selected \o <<Schema>>)
  \o Each(<<"counts">>, <<File("metadata")>>)

Prepare ==
  Decoded
  \o Each(<<"write">>, <<File("replay_qos"), File("dataset"), File("replay_scenario"),
                         File("schema_arguments")>>)
  \o Each(<<"offset", "write">>, <<File("inputs")>>)

Runner ==
  Each(<<"retain">>, Executed) \o Each(<<"list">>, Executed)
  \o Each(<<"configure">>, <<Config>>) \o Each(<<"play">>, Executed)
  \o Each(<<"exit">>, <<File("player")>>)

Provider ==
  Each(<<"terminal">>, <<File("player")>>) \o Each(<<"load">>, <<Config>>)
  \o Each(<<"observe", "terminal">>, <<File("player")>>)
  \o Each(<<"source">>, Executed) \o Each(<<"members">>, <<File("metadata")>>)
  \o Each(<<"fact">>, <<Config>>) \o Each(<<"result">>, <<File("result")>>)
  \o Each(<<"publish">>, <<Config>> \o Executed)

Script == Prepare \o Runner \o Provider

VARIABLES
  pc, result,      \* the next entry of Script; "none", "failed" or "published"
  source,          \* version of each file of the capture, "absent" among them
  expected,        \* version that each retained file must have
  hash, touched,   \* of the file being copied: its hash, its stat has changed
  made, written,   \* which attempt made the output; the documents written to it
  out, before,     \* retained copies; their hashes before the decoding
  refs, scanned,   \* what the dataset refers to; what the decoder has read
  early,           \* the topic begins before the interval of the capture
  run, listed,     \* the player's copies; the hashes in the configuration
  played, player,  \* what the player has read; how it and the probe ended
  config, evidence,\* configuration and files the result is bound to
  edits,           \* changes made by others, up to MaxEdits
  swapped          \* history: members changed after their last signed check
                   \* and before the hash that their copy is compared with

capture == <<source>>
prepared == <<expected, hash, touched, made, written, out, before, refs, scanned, early>>
executed == <<run, listed, played, player, config, evidence>>
playbackVars == <<pc, result, capture, prepared, executed, edits, swapped>>

Unread == "none"
PlaybackInit ==
  /\ pc = 1 /\ result = "none" /\ source = [f \in Retained |-> "signed"]
  /\ expected = [f \in Retained |-> "signed"] /\ hash = Unread /\ touched = FALSE
  /\ made = "no" /\ written = {} /\ early = FALSE
  /\ out = [f \in Retained |-> Unread] /\ before = out /\ refs = out /\ scanned = out
  /\ run = [f \in Provided |-> Unread]
  /\ listed = run /\ played = run /\ evidence = run
  /\ player = Unread /\ config = Unread /\ edits = 0 /\ swapped = {}

(***************************************************************************)
(* Others.  A change of a file that nothing reads any more is left out.    *)
(***************************************************************************)
ToRead(ops, f) == \E k \in pc .. Len(Script) : Script[k][1] \in ops /\ Script[k][2] = f
InPrepare == pc <= Len(Prepare)
Versions(f) ==
  {"signed", "other", "absent"} \union (IF f \in Sums THEN {"restated"} ELSE {})
Unbound(f) == ~ToRead({"check"}, f) /\ ToRead({"expect"}, f)

Edit ==
  /\ result = "none" /\ edits < MaxEdits /\ edits' = edits + 1
  /\ \E f \in Retained :
       /\ ToRead({"admit", "check", "expect", "identity", "same", "hash", "bytes"}, f)
          \/ Script[pc] = <<"compare", f>>
       /\ \E v \in Versions(f) \ {source[f]} : source' = [source EXCEPT ![f] = v]
       /\ swapped' = IF Unbound(f) THEN swapped \union {f} ELSE swapped
       /\ touched' = (touched \/ Script[pc][2] = f)
  /\ UNCHANGED <<pc, result, expected, hash, made, written, out, before, refs, scanned,
                 early, executed>>

Rewrite ==
  /\ result = "none" /\ edits < MaxEdits /\ edits' = edits + 1
  /\ \/ /\ InPrepare /\ Script[pc][1] = "scan"
        /\ \E f \in {File("metadata")} \union ToSet(Recordings) :
             out[f] # "rewritten" /\ out' = [out EXCEPT ![f] = "rewritten"]
        /\ UNCHANGED run
     \/ /\ ~InPrepare
        /\ \E f \in Provided : /\ run[f] \notin {Unread, "rewritten"}
                                 /\ run' = [run EXCEPT ![f] = "rewritten"]
        /\ UNCHANGED out
  /\ UNCHANGED <<pc, result, source, expected, hash, touched, made, written, before,
                 refs, scanned, early, listed, played, player, config, evidence, swapped>>

(***************************************************************************)
(* The pieces of a step.                                                   *)
(***************************************************************************)
At(op) == result = "none" /\ Script[pc][1] = op
It == Script[pc][2]

Advance == /\ pc' = IF pc = Len(Script) THEN pc ELSE pc + 1
           /\ result' = IF pc = Len(Script) THEN "published" ELSE result
Refuse == pc' = pc /\ result' = "failed"
Requires(condition) == IF condition THEN Advance ELSE Refuse

\* a second attempt with the same output; only a failed one is repeated
Retry ==
  /\ result = "failed" /\ InPrepare
  /\ pc' = 1 /\ result' = "none" /\ made' = IF made = "no" THEN made ELSE "earlier"
  /\ expected' = [f \in Retained |-> "signed"] /\ hash' = Unread /\ touched' = FALSE
  /\ swapped' = {}
  /\ UNCHANGED <<source, written, out, before, refs, scanned, early, executed, edits>>

(***************************************************************************)
(* source_capture and finalized_recording.                                 *)
(***************************************************************************)
\* load_extension_schemas: a schema is taken as it is found
AdmitSchema ==
  /\ At("admit") /\ Requires(source[It] # "absent")
  /\ expected' = [expected EXCEPT ![It] = source[It]]
  /\ UNCHANGED <<source, hash, touched, made, written, out, before, refs, scanned, early,
                 executed, edits, swapped>>

\* captured_document, sha256: one reading, compared with the signed digest
CheckSigned ==
  /\ At("check") /\ Requires(source[It] = "signed")
  /\ UNCHANGED <<source, prepared, executed, edits, swapped>>

\* recording_identity: another recording may carry the same identity
CheckIdentity ==
  /\ At("identity")
  /\ \/ source[It] = "other" /\ Refuse
     \/ Requires(source[It] # "absent")
  /\ UNCHANGED <<source, prepared, executed, edits, swapped>>

\* the hashes that the copies will be compared with are taken once more
Expect ==
  /\ At("expect") /\ Requires(source[It] # "absent")
  /\ expected' = [expected EXCEPT ![It] = source[It]]
  /\ UNCHANGED <<source, hash, touched, made, written, out, before, refs, scanned, early,
                 executed, edits, swapped>>

(***************************************************************************)
(* prepare.                                                                *)
(***************************************************************************)
\* an output that exists is used again
MakeOutputAnyway ==
  /\ At("mkdir") /\ Advance /\ UNCHANGED made
  /\ UNCHANGED <<source, expected, hash, touched, written, out, before, refs, scanned,
                 early, executed, edits, swapped>>

MakeOutput ==
  /\ At("mkdir") /\ Requires(made = "no")
  /\ made' = IF made = "no" THEN "now" ELSE made
  /\ UNCHANGED <<source, expected, hash, touched, written, out, before, refs, scanned,
                 early, executed, edits, swapped>>

SchemaSame ==
  /\ At("same") /\ Requires(source[It] = expected[It])
  /\ UNCHANGED <<source, prepared, executed, edits, swapped>>

\* copy_input: stat and hash, copy, stat again
CopyHash ==
  /\ At("hash") /\ Requires(source[It] # "absent")
  /\ hash' = source[It] /\ touched' = FALSE
  /\ UNCHANGED <<source, expected, made, written, out, before, refs, scanned, early,
                 executed, edits, swapped>>

CopyBytes ==
  /\ At("bytes") /\ Requires(source[It] # "absent")
  /\ out' = IF source[It] = "absent" THEN out ELSE [out EXCEPT ![It] = source[It]]
  /\ UNCHANGED <<source, expected, hash, touched, made, written, before, refs, scanned,
                 early, executed, edits, swapped>>

\* the copy compared with the source alone
CopyCompareSource ==
  /\ At("compare") /\ Requires(source[It] # "absent" /\ ~touched /\ out[It] = hash)
  /\ UNCHANGED <<source, prepared, executed, edits, swapped>>

CopyCompare ==
  /\ At("compare")
  /\ Requires(source[It] # "absent" /\ ~touched /\ out[It] = hash /\ out[It] = expected[It])
  /\ UNCHANGED <<source, prepared, executed, edits, swapped>>

HashBefore ==
  /\ At("before") /\ Advance /\ before' = [before EXCEPT ![It] = out[It]]
  /\ UNCHANGED <<source, expected, hash, touched, made, written, out, refs, scanned, early,
                 executed, edits, swapped>>

\* summary_sources, dataset_document: the summary that names the hash of this
\* recording; its own bytes are compared with nothing but their copy
Names(v) == IF v = "restated" THEN "signed" ELSE v
LookUpSummary ==
  /\ At("lookup") /\ Requires(out[It] = Names(out[Sum(It[2])]))
  /\ UNCHANGED <<source, prepared, executed, edits, swapped>>

\* its document may be refused by the contracts
Refer ==
  /\ At("refer") /\ (Advance \/ Refuse) /\ refs' = [refs EXCEPT ![It] = out[It]]
  /\ UNCHANGED <<source, expected, hash, touched, made, written, out, before, scanned,
                 early, executed, edits, swapped>>

\* scan_recording: it may find no advancing samples, or a clock going back
Scan ==
  /\ At("scan") /\ (Advance \/ Refuse) /\ scanned' = [scanned EXCEPT ![It] = out[It]]
  /\ UNCHANGED <<source, expected, hash, touched, made, written, out, before, refs, early,
                 executed, edits, swapped>>

CompareAgain ==
  /\ At("again") /\ Requires(out[It] = before[It])
  /\ UNCHANGED <<source, prepared, executed, edits, swapped>>

Counts ==
  /\ At("counts") /\ (Advance \/ Refuse) /\ early' \in BOOLEAN
  /\ UNCHANGED <<source, expected, hash, touched, made, written, out, before, refs,
                 scanned, executed, edits, swapped>>

Write ==
  /\ At("write")
  /\ \/ Advance /\ written' = written \union {It[1]}
     \/ Refuse /\ UNCHANGED written
  /\ UNCHANGED <<source, expected, hash, touched, made, out, before, refs, scanned, early,
                 executed, edits, swapped>>

CheckOffset ==
  /\ At("offset") /\ Requires(~early)
  /\ UNCHANGED <<source, prepared, executed, edits, swapped>>

(***************************************************************************)
(* The runner copies the inputs, lists their hashes and plays them.        *)
(***************************************************************************)
RetainInput ==
  /\ At("retain") /\ Advance
  /\ run' = [run EXCEPT ![It] = IF It \in Retained THEN out[It] ELSE "signed"]
  /\ UNCHANGED <<source, prepared, listed, played, player, config, evidence, edits, swapped>>

ListInput ==
  /\ At("list") /\ Advance /\ listed' = [listed EXCEPT ![It] = run[It]]
  /\ UNCHANGED <<source, prepared, run, played, player, config, evidence, edits, swapped>>

Configure ==
  /\ At("configure") /\ Advance /\ run' = [run EXCEPT ![It] = "configured"]
  /\ UNCHANGED <<source, prepared, listed, played, player, config, evidence, edits, swapped>>

Play ==
  /\ At("play") /\ Advance /\ played' = [played EXCEPT ![It] = run[It]]
  /\ UNCHANGED <<source, prepared, run, listed, player, config, evidence, edits, swapped>>

PlayerExits ==
  /\ At("exit") /\ Advance /\ player' \in {"ended", "no_probe", "stopped"}
  /\ UNCHANGED <<source, prepared, run, listed, played, config, evidence, edits, swapped>>

(***************************************************************************)
(* The provider and the check of what it has written.                      *)
(***************************************************************************)
\* checked_terminal, once for the names of its files and once for the result
CheckedTerminal ==
  /\ At("terminal") /\ Requires(player # "stopped")
  /\ UNCHANGED <<source, prepared, executed, edits, swapped>>

LoadConfiguration ==
  /\ At("load") /\ Advance /\ config' = run[It]
  /\ UNCHANGED <<source, prepared, run, listed, played, player, evidence, edits, swapped>>

CheckedObservation ==
  /\ At("observe") /\ Requires(player # "no_probe")
  /\ UNCHANGED <<source, prepared, executed, edits, swapped>>

\* only a reference, not compared with the configuration
ReferToSource ==
  /\ At("source") /\ Advance /\ evidence' = [evidence EXCEPT ![It] = run[It]]
  /\ UNCHANGED <<source, prepared, run, listed, played, player, config, edits, swapped>>

\* retained_sources: a rewritten configuration may list anything
RetainedSource ==
  /\ At("source")
  /\ \/ Requires(config = "rewritten" \/ run[It] = listed[It])
     \/ config = "rewritten" /\ Refuse
  /\ evidence' = [evidence EXCEPT ![It] = run[It]]
  /\ UNCHANGED <<source, prepared, run, listed, played, player, config, edits, swapped>>

CheckedMembers ==
  /\ At("members")
  /\ \/ run[It] = "rewritten" /\ Refuse
     \/ Advance
  /\ UNCHANGED <<source, prepared, executed, edits, swapped>>

ReferToFact ==
  /\ At("fact") /\ Advance /\ evidence' = [evidence EXCEPT ![It] = run[It]]
  /\ UNCHANGED <<source, prepared, run, listed, played, player, config, edits, swapped>>

WriteResult ==
  /\ At("result") /\ (Advance \/ Refuse)
  /\ UNCHANGED <<source, prepared, executed, edits, swapped>>

\* publish_manifest compares every reference with the bytes once more
Publish ==
  /\ At("publish")
  /\ Requires(run[It] = evidence[It] /\ (It = Config => run[It] = config))
  /\ UNCHANGED <<source, prepared, executed, edits, swapped>>

PlaybackNext ==
  \/ Edit \/ Rewrite \/ Retry
  \/ AdmitSchema \/ CheckSigned \/ CheckIdentity \/ Expect
  \/ MakeOutput \/ SchemaSame \/ CopyHash \/ CopyBytes \/ CopyCompare \/ HashBefore
  \/ LookUpSummary \/ Refer \/ Scan \/ CompareAgain \/ Counts \/ Write \/ CheckOffset
  \/ RetainInput \/ ListInput \/ Configure \/ Play \/ PlayerExits
  \/ CheckedTerminal \/ LoadConfiguration \/ CheckedObservation \/ RetainedSource
  \/ CheckedMembers \/ ReferToFact \/ WriteResult \/ Publish

PlaybackSpec == PlaybackInit /\ [][PlaybackNext]_playbackVars

(***************************************************************************)
(* Properties.                                                             *)
(***************************************************************************)
Version == {Unread, "signed", "other", "restated", "absent", "rewritten", "configured"}
IsPrepared == pc > Len(Prepare)
Documents == {"replay_qos", "dataset", "replay_scenario", "schema_arguments", "inputs"}

\* Every variable stays in its range.
PlaybackTypeOK ==
  /\ pc \in 1 .. Len(Script) /\ result \in {"none", "failed", "published"}
  /\ {source, expected, out, before, refs, scanned} \subseteq [Retained -> Version]
  /\ {run, listed, played, evidence} \subseteq [Provided -> Version]
  /\ {hash, config} \subseteq Version /\ {touched, early} \subseteq BOOLEAN
  /\ made \in {"no", "now", "earlier"} /\ written \subseteq Documents
  /\ player \in {Unread, "ended", "no_probe", "stopped"} /\ edits \in 0 .. MaxEdits
  /\ swapped \subseteq Pairs

\* Prepared inputs hold the bytes the source statement has signed and the
\* schemas that were admitted, however the capture was changed while it was
\* read.  Only a recording or a summary can be another, and only one that was
\* changed between its last comparison with the statement and the hash its
\* copy is held to; the summary beside a recording still names it.
RetainedSigned ==
  IsPrepared =>
    /\ \A f \in Retained \ Pairs :
         before[f] = IF f = Schema THEN expected[f] ELSE "signed"
    /\ \A f \in Pairs \ swapped : before[f] = "signed"
    /\ \A i \in 1 .. Segments : before[Rec(i)] = Names(before[Sum(i)])

\* The dataset refers to the bytes that the native decoder has counted.
DatasetTrue ==
  IsPrepared => /\ \A i \in 1 .. Segments : scanned[Rec(i)] = refs[Rec(i)]
                /\ \A f \in Pairs \union {File("metadata")} : refs[f] = out[f]

\* Whoever finds playback-inputs.json finds everything it relies on.
InputsComplete == "inputs" \in written => written = Documents /\ ~early

\* Prepared inputs are signed, counted and complete; nothing leaves its kind.
PreparedTrue ==
  /\ PlaybackTypeOK
  /\ RetainedSigned
  /\ DatasetTrue
  /\ InputsComplete

\* No attempt touches an output directory that it has not made.
OutputFresh ==
  [][InPrepare /\ (out' # out \/ written' # written) => made = "now"]_playbackVars

\* A published result refers to the bytes the player has read and to the
\* configuration it was checked with, and the player ended by itself after
\* the probe; a configuration rewritten before it was loaded escapes this.
ResultBound ==
  result = "published" =>
    /\ evidence[Config] = config /\ player = "ended"
    /\ config = "configured" =>
         \A f \in ToSet(Executed) : evidence[f] = listed[f] /\ played[f] = listed[f]
=============================================================================
