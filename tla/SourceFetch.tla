---------------------------- MODULE SourceFetch ----------------------------
(***************************************************************************)
(* The source image of a build: HTTPFetcher of pkg/builder/engine.go, for  *)
(* several build Pods that want the same source and mount the same cache   *)
(* PVC.  The cache holds one file per checksum; it is read, removed and    *)
(* rewritten in place without any lock, so the file system's rules decide: *)
(* an open file survives the removal of its name, and truncating a file    *)
(* takes it from under everyone who has it open.                           *)
(***************************************************************************)
EXTENDS Naturals

CONSTANTS
  Builders,        \* the build Pods
  RetainPolicies   \* spec.build.cache.retainPolicy, read once in a fetch

ASSUME BuildersAssumption == Builders \cap {"absent", "sound", "torn"} = {}
ASSUME PolicyAssumption == RetainPolicies \subseteq {"Always", "Never"}

VARIABLES
  entry,   \* the cache file: absent, sound, torn, or the builder writing it
  fetch    \* the fetch of each builder

fetchVars == <<entry, fetch>>

FetchPcs == {"look", "verified", "copying", "download", "store", "storing",
             "fetched", "failed"}

FetchTypeOK ==
  /\ entry \in {"absent", "sound", "torn"} \cup Builders
  /\ fetch \in [Builders ->
                 [pc : FetchPcs,
                  source : {"none", "partial", "good"}, \* source.img
                  linked : BOOLEAN,  \* the file it copies is still the entry
                  mixed : BOOLEAN,   \* and was being written meanwhile
                  shaken : BOOLEAN]] \* history: rewritten after verification

FetchAt(pc) == [pc |-> pc, source |-> "none",
                linked |-> FALSE, mixed |-> FALSE, shaken |-> FALSE]

FetchInit ==
  /\ entry \in {"absent", "sound", "torn"}
  /\ fetch = [b \in Builders |-> FetchAt("look")]

(* os.Remove of the entry: whoever reads it keeps reading the old file.    *)
Unlinked(f) == [x \in Builders |-> [f[x] EXCEPT !.linked = FALSE]]

Goto(b, pc) == [fetch EXCEPT ![b].pc = pc]
Failed(b) == [fetch EXCEPT ![b] = FetchAt("failed")]

(* A plausible fault: an entry is trusted for its name.                    *)
MutVerify == entry # "absent"

verifyFileChecksum == entry = "sound"

(* copyValidCache up to the checksum: an entry that is missing, older than *)
(* the builder's ttl (it may be, at any time) or does not match is removed *)
(* and the source downloaded.                                              *)
LookUp(b) ==
  /\ fetch[b].pc = "look"
  /\ \/ /\ entry # "absent"
        /\ verifyFileChecksum
        /\ fetch' = Goto(b, "verified")
        /\ UNCHANGED entry
     \/ /\ fetch' = Unlinked(Goto(b, "download"))
        /\ entry' = "absent"

(* A verified entry is opened by name once more and copied; it is not      *)
(* verified again.  If another builder removed it, the build fails.        *)
OpenCached(b) ==
  /\ fetch[b].pc = "verified"
  /\ fetch' = IF entry = "absent"
                THEN Failed(b)
                ELSE [fetch EXCEPT ![b].pc = "copying",
                                   ![b].source = "partial",
                                   ![b].linked = TRUE,
                                   ![b].mixed = entry # "sound"]
  /\ UNCHANGED entry

CopyCached(b) ==
  /\ fetch[b].pc = "copying"
  /\ \E got \in {"good", "partial"}, policy \in RetainPolicies :
       /\ got = "partial" => fetch[b].mixed
       /\ LET copied == [Goto(b, "fetched") EXCEPT ![b].source = got,
                              ![b].linked = FALSE, ![b].mixed = FALSE]
          IN IF policy = "Never"
               THEN entry' = "absent" /\ fetch' = Unlinked(copied)
               ELSE entry' = entry /\ fetch' = copied

(* The download is hashed while it is written: a wrong or broken one is    *)
(* removed and fails the build.                                            *)
Download(b) ==
  /\ fetch[b].pc = "download"
  /\ \/ \E policy \in RetainPolicies :
          fetch' = [Goto(b, IF policy = "Never" THEN "fetched" ELSE "store")
                      EXCEPT ![b].source = "good"]
     \/ fetch' = Failed(b)
  /\ UNCHANGED entry

(* copyFile to the cache truncates the file that is there and fills it.    *)
(* The last to truncate is the one whose end makes it whole.               *)
BeginStore(b) ==
  /\ fetch[b].pc = "store"
  /\ entry' = b
  /\ fetch' = [x \in Builders |->
                IF x = b THEN [fetch[x] EXCEPT !.pc = "storing"]
                ELSE IF \/ fetch[x].pc = "verified"
                        \/ fetch[x].pc = "copying" /\ fetch[x].linked
                THEN [fetch[x] EXCEPT !.shaken = TRUE,
                                      !.mixed = fetch[x].pc = "copying"]
                ELSE fetch[x]]

EndStore(b) ==
  /\ fetch[b].pc = "storing"
  /\ entry' = IF entry = b THEN "sound" ELSE entry
  /\ fetch' = Goto(b, "fetched")

(* A copy that fails (a full volume) removes what it wrote and the build   *)
(* fails, also when only the copy to the cache failed.                     *)
CopyFails(b) ==
  \/ /\ fetch[b].pc = "copying"
     /\ fetch' = Failed(b)
     /\ UNCHANGED entry
  \/ /\ fetch[b].pc = "storing"
     /\ fetch' = Unlinked(Failed(b))
     /\ entry' = "absent"

(* The Pod of a builder is gone: an entry it was writing stays as it is.    *)
PodGone(b) ==
  /\ entry' = IF entry = b THEN "torn" ELSE entry
  /\ fetch' = Failed(b)

FetchStep(b) ==
  \/ LookUp(b) \/ OpenCached(b) \/ CopyCached(b) \/ Download(b)
  \/ BeginStore(b) \/ EndStore(b) \/ CopyFails(b)
=============================================================================
