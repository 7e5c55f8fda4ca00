---------------------------- MODULE ReleaseMirror ----------------------------
(***************************************************************************)
(* The mirror of a GitHub release on Gitee                                 *)
(* (deploy/scripts/sync_gitee_releases.py as the workflow runs it with     *)
(* --tag and --latest-only): one attempt at a time, each from a fresh      *)
(* inventory of both sides; any request may fail, and an upload whose      *)
(* answer is lost may be stored at once, later, damaged or never.          *)
(***************************************************************************)
EXTENDS Naturals, FiniteSets

CONSTANTS Names,        \* attachment names
          MaxRevisions, \* bound on the revisions of an attachment at the source
          MaxCopies     \* bound on the attachments stored

ASSUME MirrorAssumption == MaxRevisions \in Nat \ {0} /\ MaxCopies \in Nat

VARIABLES rmSource,  \* the attachments of the source release, name -> revision
          rmNewest,  \* it is the newest of its kind
          rmTagged,  \* the exact tag is on both sides
          rmStored,  \* the attachments of the mirror: id, name, content
          rmLate,    \* uploads given up that may still be stored
          rmPc,      \* the attempt
          rmAssets,  \* what it read at the source, name -> revision
          rmFound,   \* its inventory of the mirror
          rmPlan     \* the attachments not yet verified

rmAttempt == <<rmPc, rmAssets, rmFound, rmPlan>>
rmVars == <<rmSource, rmNewest, rmTagged, rmStored, rmLate, rmAttempt>>

Damaged == 0
Revisions == 1 .. MaxRevisions
Attachment(i, n, c) == [id |-> i, name |-> n, content |-> c]
NamesOf(stored) == {a.name : a \in stored}
Nothing == [n \in {} |-> 1]
Listing == UNION {[names -> Revisions] : names \in SUBSET Names}

RmInit ==
  /\ rmSource \in Listing /\ rmNewest = TRUE /\ rmTagged \in BOOLEAN
  /\ rmStored = {} /\ rmLate = {}
  /\ rmPc = "idle" /\ rmAssets = Nothing /\ rmFound = {} /\ rmPlan = {}

(* An attempt that fails leaves nothing behind but the mirror.             *)
GivesUp == rmPc' = "idle" /\ rmAssets' = Nothing /\ rmFound' = {} /\ rmPlan' = {}
GoesOn(pc) == rmPc' = pc /\ UNCHANGED <<rmAssets, rmFound, rmPlan>>
Passes(pc, test, next) == rmPc = pc /\ IF test THEN GoesOn(next) ELSE GivesUp
MirrorUntouched == UNCHANGED <<rmStored, rmLate>>
WorldUntouched == UNCHANGED <<rmSource, rmNewest, rmTagged>>

-----------------------------------------------------------------------------
(* The world: the maintainers of the source, the tag mirror, late uploads *)

SourceEdited ==
  /\ \E listing \in Listing :
       /\ listing # rmSource
       /\ \A n \in DOMAIN rmSource \cap DOMAIN listing : listing[n] >= rmSource[n]
       /\ rmSource' = listing
  /\ UNCHANGED <<rmNewest, rmTagged, rmStored, rmLate, rmAttempt>>

NewerPublished ==
  /\ rmNewest /\ rmNewest' = FALSE
  /\ UNCHANGED <<rmSource, rmTagged, rmStored, rmLate, rmAttempt>>

TagPushed ==
  /\ ~rmTagged /\ rmTagged' = TRUE
  /\ UNCHANGED <<rmSource, rmNewest, rmStored, rmLate, rmAttempt>>

(* An attachment gets an id of its own.                                    *)
NextId == Cardinality(rmStored) + 1
Stores(n, c) == NextId <= MaxCopies /\ rmStored' = rmStored \cup {Attachment(NextId, n, c)}

LateUploadStored ==
  /\ \E u \in rmLate : /\ rmLate' = rmLate \ {u}
                       /\ \E c \in {u[2], Damaged} : Stores(u[1], c)
  /\ WorldUntouched /\ UNCHANGED rmAttempt

-----------------------------------------------------------------------------
(* The attempt *)

(* source_releases, then the selection again, then the exact tag.          *)
ReadSource ==
  /\ rmPc \in {"idle", "verified"}
  /\ rmPc' = "select"
  /\ rmAssets' = rmSource /\ rmFound' = {} /\ rmPlan' = DOMAIN rmSource
  /\ WorldUntouched /\ MirrorUntouched

(* verify_tag: both repositories resolve the tag to the same objects.      *)
TagsAgree == rmTagged

Select ==
  /\ Passes("select", rmNewest /\ DOMAIN rmAssets # {} /\ TagsAgree, "download")
  /\ WorldUntouched /\ MirrorUntouched

(* verify_local: what is downloaded must be what the metadata said.        *)
Download ==
  /\ Passes("download", rmSource = rmAssets, "inventory")
  /\ WorldUntouched /\ MirrorUntouched

NoDuplicates(stored) == \A a, b \in stored : a.name = b.name => a = b

(* list_attachments takes an answer that is no list for an empty one.      *)
Listed == {rmStored, {}}

(* The release is created when it is missing.                              *)
Inventory ==
  /\ rmPc = "inventory"
  /\ \E listed \in Listed :
       IF NoDuplicates(listed) /\ NamesOf(listed) \subseteq DOMAIN rmAssets
         THEN rmPc' = "transfer" /\ rmFound' = listed /\ UNCHANGED <<rmAssets, rmPlan>>
         ELSE GivesUp
  /\ WorldUntouched /\ MirrorUntouched

(* verify_remote: size and digest of what the mirror serves.               *)
Matches(a) == a.content = rmAssets[a.name]

Verified(n) == rmPlan' = rmPlan \ {n} /\ UNCHANGED <<rmPc, rmAssets, rmFound>>

(* A faulty variant: an attachment that has the name is taken for it. *)
FoundByName(n) ==
  /\ rmPc = "transfer" /\ n \in rmPlan \cap NamesOf(rmFound)
  /\ Verified(n)
  /\ WorldUntouched /\ MirrorUntouched

(* One that is there is verified, never sent again.                        *)
VerifyFound(n) ==
  /\ rmPc = "transfer" /\ n \in rmPlan
  /\ \E a \in rmFound : a.name = n /\ IF Matches(a) THEN Verified(n) ELSE GivesUp
  /\ WorldUntouched /\ MirrorUntouched

(* One that is not is uploaded, and then verified as well.                 *)
Missing(n) == rmPc = "transfer" /\ n \in rmPlan \ NamesOf(rmFound)

Upload(n) ==
  /\ Missing(n)
  /\ \E c \in {rmAssets[n], Damaged} :
       Stores(n, c) /\ IF c = rmAssets[n] THEN Verified(n) ELSE GivesUp
  /\ WorldUntouched /\ UNCHANGED rmLate

UploadGivenUp(n) ==
  /\ Missing(n)
  /\ GivesUp
  /\ rmLate' = rmLate \cup {<<n, rmAssets[n]>>}
  /\ UNCHANGED rmStored /\ WorldUntouched

FinalInventory ==
  /\ rmPlan = {}
  /\ \E listed \in Listed :
       Passes("transfer", NoDuplicates(listed) /\ NamesOf(listed) = DOMAIN rmAssets, "metadata")
  /\ WorldUntouched /\ MirrorUntouched

(* The metadata is written last, and read back.                            *)
WriteMetadata ==
  /\ Passes("metadata", TRUE, "verified")
  /\ WorldUntouched /\ MirrorUntouched

AttemptFails ==
  /\ rmPc \notin {"idle", "verified"} /\ GivesUp
  /\ WorldUntouched /\ MirrorUntouched

RmNext ==
  \/ SourceEdited \/ NewerPublished \/ TagPushed \/ LateUploadStored
  \/ ReadSource \/ Select \/ Download \/ Inventory
  \/ \E n \in Names : VerifyFound(n) \/ Upload(n) \/ UploadGivenUp(n)
  \/ FinalInventory \/ WriteMetadata \/ AttemptFails

RmSpec == RmInit /\ [][RmNext]_rmVars

-----------------------------------------------------------------------------
(* An attempt that reports "verified" has seen every attachment of the     *)
(* source, as it read it, on the mirror with the same content, whatever    *)
(* earlier attempts left there.                                            *)
MirrorIsFaithful ==
  rmPc = "verified" =>
    \A n \in DOMAIN rmAssets : \E a \in rmStored : a.name = n /\ Matches(a)

=============================================================================
