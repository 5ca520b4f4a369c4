--------------------------- MODULE AssetTransfer ---------------------------
(* AssetUpload, AssetDownload and AssetDelete.  Bytes travel between the   *)
(* caller and a provider by a signed URL, or from dock when it hands out   *)
(* none; dock keeps the catalog, is asked for a grant before an upload and *)
(* told to finalize after.  Any request or reply may be lost, assets are   *)
(* deleted and providers switched off and on at any time.                  *)
EXTENDS Integers, FiniteSets

CONSTANTS Callers,      \* goroutines that move assets
          Names,        \* workspace, kind, name and version of an asset
          Contents,     \* blobs; one stands for its bytes, and so its sha256
          MaxAssets     \* bound: catalog ids that are ever allotted

ASSUME BoundAssumption == MaxAssets \in Nat

VARIABLES catalog,    \* catalog[id]: the asset's row
          stored,     \* the blobs the provider holds
          providers,  \* whether dock hands out URLs of a provider
          call,       \* call[p]: what p is doing
          ret         \* ret[p]: what p's last call returned with a nil error

vars == <<catalog, stored, providers, call, ret>>

Ids == 1 .. MaxAssets

Unused == [state |-> "unused"]
Deleted == [state |-> "deleted"]
Row == [state : {"pending", "ready"}, name : Names, sha256 : Contents]

Idle == [at |-> "idle"]
Nothing == [none |-> TRUE]
Refused == [status |-> "refused"]

Init == /\ catalog = [id \in Ids |-> Unused]
        /\ stored = {}
        /\ providers \in BOOLEAN
        /\ call = [p \in Callers |-> Idle]
        /\ ret = [p \in Callers |-> Nothing]

----------------------------------------------------------------------------
Listed(id) == catalog[id] \in Row

Ready(id) == Listed(id) /\ catalog[id].state = "ready"

RowsOf(sha) == {id \in Ids : Listed(id) /\ catalog[id].sha256 = sha}

Goes(p, c) == call' = [call EXCEPT ![p] = c]

Returns(p, value) == Goes(p, Idle) /\ ret' = [ret EXCEPT ![p] = value]

(* The body is spooled to a file and hashed.                               *)
UploadStarts(p) ==
    /\ call[p] = Idle
    /\ \E n \in Names, c \in Contents : Goes(p, [at |-> "grant", name |-> n, sha256 |-> c])
    /\ ret' = [ret EXCEPT ![p] = Nothing]
    /\ UNCHANGED <<catalog, stored, providers>>

(* dock has the content when a ready row names it.                         *)
Exists(p) == \E id \in RowsOf(call[p].sha256) : Ready(id)

(* dock finds or makes the row of what is uploaded; it is ready at once    *)
(* when dock has the content.                                              *)
GrantRow(p, id) ==
    LET same == {i \in RowsOf(call[p].sha256) : catalog[i].name = call[p].name}
    IN  /\ \/ id \in same
           \/ same = {} /\ catalog[id] = Unused /\ \A i \in Ids : i < id => catalog[i] # Unused
        /\ catalog' = [catalog EXCEPT ![id] =
             [state |-> IF Exists(p) THEN "ready" ELSE "pending",
              name |-> call[p].name, sha256 |-> call[p].sha256]]

(* A URL is granted only for content dock has not, and with a provider;    *)
(* without one the PUT is skipped.                                         *)
AssetUploadGrant(p) ==
    /\ call[p].at = "grant"
    /\ \E id \in Ids :
         /\ GrantRow(p, id)
         /\ Goes(p, [at |-> IF Exists(p) THEN "meta" ELSE IF providers THEN "put" ELSE "skipped",
                     id |-> id, sha256 |-> call[p].sha256])
    /\ UNCHANGED <<stored, providers, ret>>

(* Broken variant: the PUT's status is not looked at.                      *)
PutUnchecked(p) ==
    /\ call[p].at = "put"
    /\ \/ stored' = stored \cup {call[p].sha256}
       \/ UNCHANGED stored
    /\ Goes(p, [call[p] EXCEPT !.at = "finalize"])
    /\ UNCHANGED <<catalog, providers, ret>>

Put(p) ==
    /\ call[p].at = "put"
    /\ stored' = stored \cup {call[p].sha256}
    /\ Goes(p, [call[p] EXCEPT !.at = "finalize"])
    /\ UNCHANGED <<catalog, providers, ret>>

MarkReady(id) == catalog' = [catalog EXCEPT ![id].state = "ready"]

AssetFinalize(p) ==
    /\ call[p].at = "finalize" /\ Listed(call[p].id)
    /\ MarkReady(call[p].id)
    /\ Returns(p, [id |-> call[p].id, sha256 |-> call[p].sha256])
    /\ UNCHANGED <<stored, providers>>

(* Broken variant: a failing metadata request is not looked at.            *)
UploadMetaUnchecked(p) ==
    /\ call[p].at \in {"meta", "skipped"}
    /\ Returns(p, [id |-> call[p].id, sha256 |-> call[p].sha256])
    /\ UNCHANGED <<catalog, stored, providers>>

(* Without a PUT the row's present metadata is the answer.                 *)
UploadMeta(p) ==
    /\ call[p].at \in {"meta", "skipped"} /\ Listed(call[p].id)
    /\ Returns(p, [id |-> call[p].id, sha256 |-> call[p].sha256])
    /\ UNCHANGED <<catalog, stored, providers>>

(* A request is carried out but its reply is lost: the caller sees an      *)
(* error.                                                                  *)
ReplyLost(p) ==
    /\ \/ /\ call[p].at = "grant" /\ (\E id \in Ids : GrantRow(p, id))
          /\ UNCHANGED stored
       \/ call[p].at = "put" /\ stored' = stored \cup {call[p].sha256} /\ UNCHANGED catalog
       \/ /\ call[p].at = "finalize" /\ Listed(call[p].id)
          /\ MarkReady(call[p].id) /\ UNCHANGED stored
    /\ Goes(p, Idle)
    /\ UNCHANGED <<providers, ret>>

(* Any other error: a lost request, a refusal, a row or a URL gone.        *)
Fails(p) ==
    /\ call[p] # Idle
    /\ Goes(p, Idle)
    /\ UNCHANGED <<catalog, stored, providers, ret>>

(* The row goes, and the blob with the last row that names it.             *)
AssetDelete(id) ==
    /\ Listed(id)
    /\ catalog' = [catalog EXCEPT ![id] = Deleted]
    /\ stored' = IF RowsOf(catalog[id].sha256) = {id}
                 THEN stored \ {catalog[id].sha256} ELSE stored
    /\ UNCHANGED <<providers, call, ret>>

(* AssetDownload of a row that AssetGet or AssetStat has found.            *)
DownloadStarts(p) ==
    /\ call[p] = Idle
    /\ \E id \in Ids :
         Listed(id) /\ Goes(p, [at |-> "ask", id |-> id, sha256 |-> catalog[id].sha256])
    /\ ret' = [ret EXCEPT ![p] = Nothing]
    /\ UNCHANGED <<catalog, stored, providers>>

Granted(p) == providers /\ Ready(call[p].id)

(* The direct path: a URL from dock; any error, a lost request among them, *)
(* leads to the blob stream through dock.                                  *)
DownloadURL(p) ==
    /\ call[p].at = "ask"
    /\ \/ Granted(p) /\ Goes(p, [call[p] EXCEPT !.at = "fetch"])
       \/ Goes(p, [call[p] EXCEPT !.at = "relay"])
    /\ UNCHANGED <<catalog, stored, providers, ret>>

(* Whatever its status, the response is the caller's, with a nil error.    *)
Answers(p, answer) == Returns(p, answer) /\ UNCHANGED <<catalog, stored, providers>>

Bytes(sha) == [status |-> "ok", sha256 |-> sha]

(* The provider may refuse what it holds (the URL has expired, an error of *)
(* its own), and nothing is tried after it.                                *)
Fetch(p) ==
    /\ call[p].at = "fetch"
    /\ \/ call[p].sha256 \in stored /\ Answers(p, Bytes(call[p].sha256))
       \/ Answers(p, Refused)

(* Broken variant: what dock said of the URL is the download's answer.     *)
NoFallback(p) ==
    /\ call[p].at = "relay"
    /\ \/ Granted(p) /\ Answers(p, Bytes(catalog[call[p].id].sha256))
       \/ ~ Granted(p) /\ Answers(p, Refused)

(* dock streams the blob that the row names now.                           *)
Relay(p) ==
    /\ call[p].at = "relay"
    /\ \/ Ready(call[p].id) /\ Answers(p, Bytes(catalog[call[p].id].sha256))
       \/ ~ Ready(call[p].id) /\ Answers(p, Refused)

DockSwitches == providers' = ~ providers /\ UNCHANGED <<catalog, stored, call, ret>>

Step(p) == \/ UploadStarts(p) \/ AssetUploadGrant(p) \/ Put(p) \/ AssetFinalize(p)
           \/ UploadMeta(p) \/ ReplyLost(p) \/ Fails(p)
           \/ DownloadStarts(p) \/ DownloadURL(p) \/ Fetch(p) \/ Relay(p)

Next == (\E p \in Callers : Step(p)) \/ (\E id \in Ids : AssetDelete(id)) \/ DockSwitches

Spec == Init /\ [][Next]_vars

----------------------------------------------------------------------------
(* What a caller is in the middle of, and what calls return.               *)
Uploading == [at : {"grant"}, name : Names, sha256 : Contents]
Moving == [at : {"put", "finalize", "meta", "skipped", "ask", "fetch", "relay"},
           id : Ids, sha256 : Contents]
Uploaded == [id : Ids, sha256 : Contents]
Downloaded == {Refused} \cup [status : {"ok"}, sha256 : Contents]

(* The types of the variables.                                             *)
TypeOK ==
    /\ catalog \in [Ids -> {Unused, Deleted} \cup Row]
    /\ stored \subseteq Contents
    /\ call \in [Callers -> {Idle} \cup Uploading \cup Moving]
    /\ providers \in BOOLEAN
    /\ ret \in [Callers -> {Nothing} \cup Uploaded \cup Downloaded]

(* A row is ready only while the provider holds its bytes, whatever        *)
(* replies were lost, retried or overtaken by a deletion.                  *)
ReadyIsStored ==
    \A id \in Ids : Ready(id) => catalog[id].sha256 \in stored

(* What a call in progress knows of its row, while it is not deleted: it   *)
(* is of the call's content, its bytes are stored once the PUT is done,    *)
(* and it is ready when dock said that it has the content.                 *)
MovesItsRow(p) ==
    call[p] \in Moving =>
      /\ catalog[call[p].id] # Unused
      /\ Listed(call[p].id) =>
           /\ catalog[call[p].id].sha256 = call[p].sha256
           /\ call[p].at = "finalize" => call[p].sha256 \in stored
           /\ call[p].at = "meta" => catalog[call[p].id].state = "ready"

(* The inductive invariant: ReadyIsStored holds because a row that is      *)
(* about to be finalized, by whichever of several overlapping and retried  *)
(* uploads, is still the one its bytes were stored for.                    *)
AssetInv == TypeOK /\ ReadyIsStored /\ \A p \in Callers : MovesItsRow(p)

(* An upload that returns without an error has its bytes at the provider   *)
(* and a ready row of its own content, unless dock had no provider for it. *)
UploadIsStored ==
    [][\A p \in Callers :
         (ret'[p] \in Uploaded /\ ret[p] # ret'[p] /\ call[p].at # "skipped") =>
         /\ catalog'[ret'[p].id] \in Row
         /\ catalog'[ret'[p].id].state = "ready"
         /\ catalog'[ret'[p].id].sha256 = ret'[p].sha256
         /\ ret'[p].sha256 \in stored']_vars

(* A download that is answered with bytes has those of the row it began    *)
(* with, which the provider still holds, whichever way they came and       *)
(* whatever was deleted or uploaded since.  It is refused only by a        *)
(* provider whose URL dock had granted, or when its row is gone or not     *)
(* ready: losing the direct path, or having no provider, refuses nothing.  *)
DownloadIsServed ==
    [][\A p \in Callers :
         (ret'[p] \in Downloaded /\ ret[p] # ret'[p]) =>
         \/ ret'[p] = Bytes(call[p].sha256) /\ call[p].sha256 \in stored
         \/ ret'[p] = Refused /\ (call[p].at = "fetch" \/ ~ Ready(call[p].id))]_vars
=============================================================================
