---------------------------- MODULE ReleasePublish ----------------------------
(***************************************************************************)
(* Publishing built files straight to a Gitee release                      *)
(* (deploy/scripts/publish_gitee_release.py): each attempt is a process,   *)
(* run again by hand when it failed.  It finds or creates the release of   *)
(* an existing tag, lists the attachments, and for each file deletes the   *)
(* attachment of its name and uploads it.  A request may fail before or    *)
(* after it was carried out, and an upload given up may be stored later.   *)
(* The files of one attempt differ in name.                                *)
(***************************************************************************)
EXTENDS Naturals, FiniteSets

CONSTANTS Files,     \* names of the files
          MaxBuilds, \* bound on the builds
          MaxAttachments, \* bound on the ids given to attachments
          PageSize   \* attachments in an answer of Gitee's that asks for no page

ASSUME PublishAssumption == MaxBuilds \in Nat /\ MaxAttachments \in Nat /\ PageSize \in Nat

VARIABLES pbBuilt,    \* the files by name: the build they are of, 0 when empty
          pbBuild,    \* builds made
          pbTagged,   \* the tag is on Gitee
          pbRelease,  \* its release is there
          pbStored,   \* the attachments: id, name, content
          pbIds,      \* ids given so far
          pbLate,     \* uploads given up that may still be stored: name and content
          pbPc,       \* the attempt
          pbExisting, \* the attachments it found, at most one of a name
          pbTodo,     \* the names it has not published yet
          pbName,     \* the one it is at
          pbDone,     \* the last attempt returned, and nothing was built since (history)
          pbUnseen    \* an attachment is there that an attempt did not see (history)

pbWorld == <<pbBuilt, pbBuild, pbTagged>>
pbMirror == <<pbStored, pbIds, pbLate>>
pbAttempt == <<pbPc, pbExisting, pbTodo, pbName>>
pbHistory == <<pbDone, pbUnseen>>
pbVars == <<pbWorld, pbRelease, pbMirror, pbAttempt, pbHistory>>

Stored(i, n, c) == [id |-> i, name |-> n, content |-> c]
StoredNames(stored) == {a.name : a \in stored}
NoName == "none"

PbInit ==
  /\ pbBuilt = [n \in Files |-> 1] /\ pbBuild = 1
  /\ pbTagged \in BOOLEAN /\ pbRelease = FALSE
  /\ pbStored = {} /\ pbIds = 0 /\ pbLate = {}
  /\ pbPc = "idle" /\ pbExisting = {} /\ pbTodo = {} /\ pbName = NoName
  /\ pbDone = FALSE /\ pbUnseen = FALSE

PbAt(pc) == pbPc = pc
PbGoes(pc) == pbPc' = pc /\ UNCHANGED <<pbExisting, pbTodo, pbName>>
PbEnds == pbPc' = "idle" /\ pbExisting' = {} /\ pbTodo' = {} /\ pbName' = NoName

-----------------------------------------------------------------------------
(* The world *)

(* A build between attempts; a file of it may be empty.                    *)
PbBuilds ==
  /\ PbAt("idle") /\ pbBuild < MaxBuilds
  /\ pbBuild' = pbBuild + 1
  /\ \E empty \in SUBSET Files :
       pbBuilt' = [n \in Files |-> IF n \in empty THEN 0 ELSE pbBuild + 1]
  /\ pbDone' = FALSE
  /\ UNCHANGED <<pbTagged, pbRelease, pbMirror, pbAttempt, pbUnseen>>

PbTags ==
  /\ ~pbTagged /\ pbTagged' = TRUE
  /\ UNCHANGED <<pbBuilt, pbBuild, pbRelease, pbMirror, pbAttempt, pbHistory>>

PbStores(n, c) ==
  /\ pbIds < MaxAttachments
  /\ pbIds' = pbIds + 1
  /\ pbStored' = pbStored \cup {Stored(pbIds + 1, n, c)}

(* No attempt to come replaces it: one has listed, or the last returned,   *)
(* or there is another of its name already.                                *)
PbStoresLate ==
  /\ \E u \in pbLate :
       /\ PbStores(u.name, u.content)
       /\ pbLate' = pbLate \ {u}
       /\ pbUnseen' = (pbUnseen \/ pbPc \in {"next", "delete", "upload"} \/ pbDone \/ u.name \in StoredNames(pbStored))
  /\ UNCHANGED <<pbWorld, pbRelease, pbAttempt, pbDone>>

-----------------------------------------------------------------------------
(* main and publish *)

(* The files are looked for before anything is sent.                       *)
PbStarts ==
  /\ PbAt("idle")
  /\ pbTodo' = Files /\ pbDone' = FALSE
  /\ pbPc' = "find"
  /\ UNCHANGED <<pbWorld, pbRelease, pbMirror, pbExisting, pbName, pbUnseen>>

(* A 404 sends it to the tag, which must exist: none is made or moved.     *)
PbFinds ==
  /\ PbAt("find")
  /\ PbGoes(IF pbRelease THEN "list" ELSE "tag")
  /\ UNCHANGED <<pbWorld, pbRelease, pbMirror, pbHistory>>

PbResolvesTag ==
  /\ PbAt("tag")
  /\ IF pbTagged THEN PbGoes("create") ELSE PbEnds
  /\ UNCHANGED <<pbWorld, pbRelease, pbMirror, pbHistory>>

PbCreates ==
  /\ PbAt("create")
  /\ pbRelease' = TRUE
  /\ PbGoes("list") \/ PbEnds
  /\ UNCHANGED <<pbWorld, pbMirror, pbHistory>>

(* list_attachments asks for no page, and takes what is not a list for an  *)
(* empty one; of two attachments of one name the last is kept.             *)
PbLists ==
  /\ PbAt("list")
  /\ \/ \E page \in SUBSET pbStored :
          /\ page = pbStored \/ Cardinality(page) = PageSize
          /\ Cardinality(page) <= PageSize
          /\ pbExisting' = {a \in page : \A b \in page : b.name = a.name => b.id <= a.id}
     \/ pbExisting' = {}
  /\ pbUnseen' = (pbUnseen \/ pbExisting' # pbStored)
  /\ pbPc' = "next"
  /\ UNCHANGED <<pbWorld, pbRelease, pbMirror, pbTodo, pbName, pbDone>>

(* A faulty variant: an attachment of the name is left where it is. *)
PbTakesFileOnly ==
  /\ PbAt("next") /\ pbTodo # {}
  /\ \E n \in pbTodo :
       IF pbBuilt[n] = 0 THEN PbEnds
       ELSE /\ pbName' = n /\ pbTodo' = pbTodo \ {n}
            /\ pbPc' = "upload"
            /\ UNCHANGED pbExisting
  /\ UNCHANGED <<pbWorld, pbRelease, pbMirror, pbHistory>>

(* An empty file is refused, after the files before it were published.     *)
PbTakesFile ==
  /\ PbAt("next") /\ pbTodo # {}
  /\ \E n \in pbTodo :
       IF pbBuilt[n] = 0 THEN PbEnds
       ELSE /\ pbName' = n /\ pbTodo' = pbTodo \ {n}
            /\ pbPc' = IF n \in StoredNames(pbExisting) THEN "delete" ELSE "upload"
            /\ UNCHANGED pbExisting
  /\ UNCHANGED <<pbWorld, pbRelease, pbMirror, pbHistory>>

(* By its id; an error of one that is gone ends the attempt.               *)
PbDeletes ==
  /\ PbAt("delete")
  /\ pbStored' = {a \in pbStored : \A b \in pbExisting : b.name = pbName => a.id # b.id}
  /\ PbGoes("upload") \/ PbEnds
  /\ UNCHANGED <<pbWorld, pbRelease, pbIds, pbLate, pbHistory>>

PbUploads ==
  /\ PbAt("upload")
  /\ PbStores(pbName, pbBuilt[pbName])
  /\ pbPc' = "next" /\ pbName' = NoName /\ UNCHANGED <<pbExisting, pbTodo>>
  /\ UNCHANGED <<pbWorld, pbRelease, pbLate, pbHistory>>

(* The connection is lost: it was stored, or will be, or is dropped.       *)
PbUploadFails ==
  /\ PbAt("upload")
  /\ \/ PbStores(pbName, pbBuilt[pbName]) /\ UNCHANGED pbLate
     \/ /\ pbLate' = pbLate \cup {[name |-> pbName, content |-> pbBuilt[pbName]]}
        /\ UNCHANGED <<pbStored, pbIds>>
  /\ PbEnds
  /\ UNCHANGED <<pbWorld, pbRelease, pbDone, pbUnseen>>

PbReturns ==
  /\ PbAt("next") /\ pbTodo = {}
  /\ pbDone' = TRUE
  /\ PbEnds
  /\ UNCHANGED <<pbWorld, pbRelease, pbMirror, pbUnseen>>

(* Any request may fail, and the process may be stopped.                   *)
PbFails ==
  /\ ~PbAt("idle")
  /\ PbEnds
  /\ UNCHANGED <<pbWorld, pbRelease, pbMirror, pbHistory>>

PbNext ==
  \/ PbBuilds \/ PbTags \/ PbStoresLate
  \/ PbStarts \/ PbFinds \/ PbResolvesTag \/ PbCreates \/ PbLists \/ PbTakesFile
  \/ PbDeletes \/ PbUploads \/ PbUploadFails \/ PbReturns \/ PbFails

PbSpec == PbInit /\ [][PbNext]_pbVars

-----------------------------------------------------------------------------
(* An attempt that returned has left every file of the build on the        *)
(* release, with its content, whatever attempts before it failed between   *)
(* a delete and its upload -- and once only, unless an upload given up     *)
(* turned up later or a listing did not show all there was.                *)
PublishedIsComplete ==
  pbDone => \A n \in Files :
    LET copies == {a \in pbStored : a.name = n} IN
    /\ \E a \in copies : a.content = pbBuilt[n]
    /\ ~pbUnseen => \A a, b \in copies : a = b

=============================================================================
