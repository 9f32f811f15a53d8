---------------------------- MODULE SelfUpgrade ----------------------------
(***************************************************************************)
(* luabox upgrade (upgrade_cmd.rs): processes that replace the installed   *)
(* binary with a release, from a server whose releases may be uploaded     *)
(* anew between two downloads and over a network that may deliver          *)
(* anything.  A process may fail or be killed at every step.               *)
(***************************************************************************)
EXTENDS Naturals

CONSTANTS Procs,      \* processes running luabox upgrade
          Tags,       \* release tags
          Current,    \* the tag of the version that is running
          Builds,     \* what an asset may hold
          NoBuild,    \* what SHA256SUMS lists for an asset it does not name
          MaxUploads  \* bound on the uploads

\* What the constants are.
UpgradeAssumption ==
    /\ Current \in Tags
    /\ NoBuild \notin Builds
    /\ MaxUploads \in Nat

VARIABLES asset,   \* the archive each tag offers for this target
          listed,  \* the build whose digest its SHA256SUMS gives, per tag
          latest,  \* the tag the API calls the latest
          ever,    \* every listing there has been: a history variable
          uploads, \* the uploads so far
          binary,  \* the installed program: its tag and build, its mode
          proc     \* the processes

server == <<asset, listed, latest, ever, uploads>>
vars   == <<server, binary, proc>>

Listings == {<<t, listed[t]>> : t \in Tags}

Started == [pc |-> "start", tag |-> Current, archive |-> NoBuild, sum |-> NoBuild, exec |-> FALSE]

Init ==
    /\ asset \in [Tags -> Builds]
    /\ listed = asset
    /\ latest \in Tags
    /\ ever = Listings
    /\ uploads = 0
    /\ binary = [tag |-> Current, build |-> asset[Current], exec |-> TRUE]
    /\ proc = [p \in Procs |-> Started]

\* A release is published, or its assets are uploaded again one by one.
Upload ==
    /\ uploads < MaxUploads
    /\ uploads' = uploads + 1
    /\ \/ \E t \in Tags, b \in Builds : asset' = [asset EXCEPT ![t] = b] /\ UNCHANGED <<listed, latest>>
       \/ \E t \in Tags, b \in Builds \cup {NoBuild} :
             listed' = [listed EXCEPT ![t] = b] /\ UNCHANGED <<asset, latest>>
       \/ latest' \in Tags /\ UNCHANGED <<asset, listed>>
    /\ ever' = ever \cup {<<t, listed'[t]>> : t \in Tags}
    /\ UNCHANGED <<binary, proc>>

------------------------------------------------------------------------------
At(p, pc) == proc[p].pc = pc
Goes(p, pc) == proc' = [proc EXCEPT ![p].pc = pc]
Fails(p) == Goes(p, "failed")

\* run: the tag asked for, or the latest; nothing to do when that is this one.
Resolve(p) ==
    /\ At(p, "start")
    /\ \/ \E t \in Tags : proc' = [proc EXCEPT ![p].pc = "archive", ![p].tag = t]
       \/ IF latest = Current THEN Goes(p, "current")
          ELSE proc' = [proc EXCEPT ![p].pc = "archive", ![p].tag = latest]
       \/ Fails(p)
    /\ UNCHANGED <<server, binary>>

\* download: what the server has, or what the network makes of it.
DownloadArchive(p) ==
    /\ At(p, "archive")
    /\ \/ \E b \in Builds : proc' = [proc EXCEPT ![p].pc = "sums", ![p].archive = b]
       \/ Fails(p)
    /\ UNCHANGED <<server, binary>>

\* Mutant: the listing of the latest release.
SumsOfLatest(p) ==
    /\ At(p, "sums")
    /\ proc' = [proc EXCEPT ![p].pc = "verify", ![p].sum = listed[latest]]
    /\ UNCHANGED <<server, binary>>

\* http_text, and expected_hash's search of it.
DownloadSums(p) ==
    /\ At(p, "sums")
    /\ \/ proc' = [proc EXCEPT ![p].pc = "verify", ![p].sum = listed[proc[p].tag]]
       \/ Fails(p)
    /\ UNCHANGED <<server, binary>>

\* verify: no listing fails like another digest does.
Verify(p) ==
    /\ At(p, "verify")
    /\ IF proc[p].sum = proc[p].archive THEN Goes(p, "extract") ELSE Fails(p)
    /\ UNCHANGED <<server, binary>>

\* tar and the search for the binary in what it unpacked.
Extract(p) ==
    /\ At(p, "extract")
    /\ Goes(p, "chmod") \/ Fails(p)
    /\ UNCHANGED <<server, binary>>

SetExecutable(p) ==
    /\ At(p, "chmod")
    /\ \/ proc' = [proc EXCEPT ![p].pc = "replace", ![p].exec = TRUE]
       \/ Fails(p)
    /\ UNCHANGED <<server, binary>>

\* self_replace, which stages beside the binary and renames.
SelfReplace(p) ==
    /\ At(p, "replace")
    /\ \/ /\ binary' = [tag |-> proc[p].tag, build |-> proc[p].archive, exec |-> proc[p].exec]
          /\ Goes(p, "upgraded")
       \/ Fails(p) /\ UNCHANGED binary
    /\ UNCHANGED server

Kill(p) ==
    /\ proc[p].pc \notin {"upgraded", "current", "failed"}
    /\ Fails(p)
    /\ UNCHANGED <<server, binary>>

Next ==
    \/ Upload
    \/ \E p \in Procs :
          \/ Resolve(p) \/ DownloadArchive(p) \/ DownloadSums(p) \/ Verify(p)
          \/ Extract(p) \/ SetExecutable(p) \/ SelfReplace(p) \/ Kill(p)

Spec == Init /\ [][Next]_vars

------------------------------------------------------------------------------
(***************************************************************************)
(* Properties                                                              *)
(***************************************************************************)
Pcs == {"start", "archive", "sums", "verify", "extract", "chmod", "replace",
        "upgraded", "current", "failed"}

TypeOK ==
    /\ asset \in [Tags -> Builds] /\ listed \in [Tags -> Builds \cup {NoBuild}]
    /\ latest \in Tags /\ uploads \in 0..MaxUploads
    /\ ever \subseteq Tags \X (Builds \cup {NoBuild})
    /\ binary \in [tag : Tags, build : Builds, exec : BOOLEAN]
    /\ proc \in [Procs -> [pc : Pcs, tag : Tags, archive : Builds \cup {NoBuild},
                           sum : Builds \cup {NoBuild}, exec : BOOLEAN]]

\* Whatever the network, the uploads and the other processes do, the installed
\* program is executable and is a build some SHA256SUMS of the very tag it was
\* taken from has listed (verify "failing closed").
InstalledWasListed == binary.exec /\ <<binary.tag, binary.build>> \in ever

\* A process is past its verification only with the archive its listing names:
\* what was checked is what is unpacked and installed, although the release may
\* have been uploaded again since.
VerifiedIsInstalled ==
    \A p \in Procs : proc[p].pc \in {"extract", "chmod", "replace", "upgraded"} =>
        proc[p].archive \in Builds /\ <<proc[p].tag, proc[p].archive>> \in ever
=============================================================================
