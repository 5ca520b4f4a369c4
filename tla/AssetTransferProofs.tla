------------------------ MODULE AssetTransferProofs ------------------------
(* Proofs about uploads and downloads, for any callers, names, contents    *)
(* and number of rows.                                                     *)
EXTENDS AssetTransfer, TLAPS

(* A state, a call, a row and a returned value are told apart by a field.  *)
LEMMA Shapes ==
    /\ Unused \notin Row /\ Deleted \notin Row /\ Unused # Deleted
    /\ Idle \notin Moving /\ Idle \notin Uploading
    /\ \A c \in Uploading : c \notin Moving
    /\ Nothing \notin Uploaded /\ Refused \notin Uploaded
    /\ \A d \in [status : {"ok"}, sha256 : Contents] : d \notin Uploaded
<1>1. Unused \notin Row /\ Deleted \notin Row /\ Unused # Deleted
  BY DEF Unused, Deleted, Row
<1>2. Idle \notin Moving /\ Idle \notin Uploading
  BY DEF Idle, Moving, Uploading
<1>3. ASSUME NEW c \in Uploading PROVE c \notin Moving
  <2>1. c.at = "grant"
    BY DEF Uploading
  <2> QED
    BY <2>1 DEF Moving
<1>4. Nothing \notin Uploaded /\ Refused \notin Uploaded
  BY DEF Nothing, Refused, Uploaded
<1>5. ASSUME NEW d \in [status : {"ok"}, sha256 : Contents] PROVE d \notin Uploaded
  BY DEF Uploaded
<1> QED
  BY <1>1, <1>2, <1>3, <1>4, <1>5

(* A call that is past "idle" and "grant" moves a row.                     *)
LEMMA CallShape ==
    ASSUME TypeOK, NEW p \in Callers, call[p].at \notin {"idle", "grant"}
    PROVE  /\ call[p] \in Moving /\ call[p].id \in Ids /\ call[p].sha256 \in Contents
           /\ catalog[call[p].id] \in {Unused, Deleted} \cup Row
<1>1. call[p] \in {Idle} \cup Uploading \cup Moving
  BY DEF TypeOK
<1>2. call[p] \in Moving
  BY <1>1 DEF Idle, Uploading
<1> QED
  BY <1>2 DEF TypeOK, Moving

LEMMA GrantShape ==
    ASSUME TypeOK, NEW p \in Callers, call[p].at = "grant"
    PROVE  call[p] \in Uploading /\ call[p].name \in Names /\ call[p].sha256 \in Contents
<1>1. call[p] \in {Idle} \cup Uploading \cup Moving
  BY DEF TypeOK
<1>2. call[p] \in Uploading
  BY <1>1 DEF Idle, Moving
<1> QED
  BY <1>2 DEF Uploading

(* What happens to the rows and the blobs in one step: a row keeps its     *)
(* content until it is deleted for good, a ready one stays ready, and a    *)
(* blob stays while a row names it.                                        *)
RowsGoOn ==
    \A id \in Ids :
      /\ catalog[id] # Unused => catalog'[id] # Unused
      /\ (catalog[id] # Unused /\ catalog'[id] \in Row) =>
           /\ catalog[id] \in Row
           /\ catalog'[id].sha256 = catalog[id].sha256
           /\ catalog[id].state = "ready" => catalog'[id].state = "ready"
           /\ catalog[id].sha256 \in stored => catalog[id].sha256 \in stored'

LEMMA NoRowChanges ==
    ASSUME UNCHANGED catalog, stored \subseteq stored'
    PROVE  RowsGoOn
BY Shapes DEF RowsGoOn

(* The row of a grant.                                                     *)
LEMMA GrantRowGoesOn ==
    ASSUME AssetInv, NEW p \in Callers, call[p].at = "grant",
           NEW id \in Ids, GrantRow(p, id), UNCHANGED stored
    PROVE  /\ RowsGoOn
           /\ catalog' \in [Ids -> {Unused, Deleted} \cup Row]
           /\ catalog'[id] \in Row /\ catalog'[id].sha256 = call[p].sha256
           /\ catalog'[id].state = IF Exists(p) THEN "ready" ELSE "pending"
           /\ ReadyIsStored'
<1> DEFINE row == [state |-> IF Exists(p) THEN "ready" ELSE "pending",
                   name |-> call[p].name, sha256 |-> call[p].sha256]
<1>1. catalog \in [Ids -> {Unused, Deleted} \cup Row] /\ TypeOK
  BY DEF AssetInv, TypeOK
<1>2. row \in Row /\ row.sha256 = call[p].sha256
      /\ row.state = IF Exists(p) THEN "ready" ELSE "pending"
  BY <1>1, GrantShape DEF Row
<1>3. catalog' = [catalog EXCEPT ![id] = row]
  BY DEF GrantRow
<1>4. \/ Listed(id) /\ catalog[id].sha256 = call[p].sha256
      \/ catalog[id] = Unused
  BY DEF GrantRow, RowsOf
<1> HIDE DEF row
<1>5. catalog'[id] = row /\ \A i \in Ids \ {id} : catalog'[i] = catalog[i]
  BY <1>1, <1>3
<1>6. catalog' \in [Ids -> {Unused, Deleted} \cup Row]
  BY <1>1, <1>2, <1>3
<1>7. Exists(p) => call[p].sha256 \in stored
  <2>1. ASSUME NEW i \in RowsOf(call[p].sha256), Ready(i)
        PROVE  call[p].sha256 \in stored
    <3>1. i \in Ids /\ catalog[i].sha256 = call[p].sha256
      BY DEF RowsOf
    <3> QED
      BY <2>1, <3>1 DEF AssetInv, ReadyIsStored
  <2> QED
    BY <2>1 DEF Exists
<1>8. Listed(id) /\ catalog[id].state = "ready" => row.state = "ready"
  <2> SUFFICES ASSUME Listed(id), catalog[id].state = "ready" PROVE Exists(p)
    BY <1>2
  <2>1. catalog[id].sha256 = call[p].sha256
    BY <1>4, Shapes DEF Listed
  <2> QED
    BY <2>1 DEF Exists, RowsOf, Ready
<1>9. RowsGoOn
  BY <1>1, <1>2, <1>4, <1>5, <1>8, Shapes DEF RowsGoOn, Listed
<1>10. ReadyIsStored'
  <2> SUFFICES ASSUME NEW i \in Ids, catalog'[i] \in Row, catalog'[i].state = "ready"
               PROVE  catalog'[i].sha256 \in stored
    BY DEF ReadyIsStored, Ready, Listed
  <2>1. CASE i = id
    BY <1>2, <1>5, <1>7, <2>1
  <2>2. CASE i # id
    BY <1>5, <2>2 DEF AssetInv, ReadyIsStored, Ready, Listed
  <2> QED
    BY <2>1, <2>2
<1> QED
  BY <1>2, <1>5, <1>6, <1>9, <1>10

LEMMA MarkReadyGoesOn ==
    ASSUME AssetInv, NEW p \in Callers, call[p].at = "finalize", Listed(call[p].id),
           MarkReady(call[p].id), UNCHANGED stored
    PROVE  /\ RowsGoOn
           /\ catalog' \in [Ids -> {Unused, Deleted} \cup Row]
           /\ ReadyIsStored'
           /\ catalog'[call[p].id] \in Row /\ catalog'[call[p].id].state = "ready"
           /\ catalog'[call[p].id].sha256 = call[p].sha256 /\ call[p].sha256 \in stored'
<1> DEFINE id == call[p].id
           row == [catalog[id] EXCEPT !.state = "ready"]
<1>1. catalog \in [Ids -> {Unused, Deleted} \cup Row] /\ TypeOK
  BY DEF AssetInv, TypeOK
<1>2. id \in Ids /\ call[p] \in Moving
  BY <1>1, CallShape
<1>3. catalog[id] \in Row /\ catalog[id].sha256 = call[p].sha256 /\ call[p].sha256 \in stored
  BY <1>2 DEF AssetInv, MovesItsRow, Listed
<1>4. row \in Row /\ row.state = "ready" /\ row.sha256 = catalog[id].sha256
  BY <1>3 DEF Row
<1>5. catalog' = [catalog EXCEPT ![id] = row]
  BY DEF MarkReady
<1> HIDE DEF id, row
<1>6. catalog'[id] = row /\ \A i \in Ids \ {id} : catalog'[i] = catalog[i]
  BY <1>1, <1>2, <1>5
<1>7. catalog' \in [Ids -> {Unused, Deleted} \cup Row]
  BY <1>1, <1>4, <1>5
<1>8. RowsGoOn
  BY <1>3, <1>4, <1>6, Shapes DEF RowsGoOn
<1>9. ReadyIsStored'
  <2> SUFFICES ASSUME NEW i \in Ids, catalog'[i] \in Row, catalog'[i].state = "ready"
               PROVE  catalog'[i].sha256 \in stored
    BY DEF ReadyIsStored, Ready, Listed
  <2>1. CASE i = id
    BY <1>3, <1>4, <1>6, <2>1
  <2>2. CASE i # id
    BY <1>6, <2>2 DEF AssetInv, ReadyIsStored, Ready, Listed
  <2> QED
    BY <2>1, <2>2
<1> QED
  BY <1>3, <1>4, <1>6, <1>7, <1>8, <1>9 DEF id

(* A deletion takes a blob only with the last row that names it.           *)
LEMMA DeleteGoesOn ==
    ASSUME AssetInv, NEW id \in Ids, AssetDelete(id)
    PROVE  /\ RowsGoOn /\ stored' \subseteq stored
           /\ catalog' \in [Ids -> {Unused, Deleted} \cup Row]
           /\ ReadyIsStored'
<1>1. catalog \in [Ids -> {Unused, Deleted} \cup Row] /\ catalog[id] \in Row
  BY DEF AssetInv, TypeOK, AssetDelete, Listed
<1>2. catalog' = [catalog EXCEPT ![id] = Deleted]
      /\ stored' = IF RowsOf(catalog[id].sha256) = {id}
                   THEN stored \ {catalog[id].sha256} ELSE stored
  BY DEF AssetDelete
<1>3. catalog'[id] = Deleted /\ \A i \in Ids \ {id} : catalog'[i] = catalog[i]
  BY <1>1, <1>2
<1>4. ASSUME NEW i \in Ids \ {id}, catalog[i] \in Row, catalog[i].sha256 \in stored
      PROVE  catalog[i].sha256 \in stored'
  <2>1. CASE catalog[i].sha256 = catalog[id].sha256
    <3>1. i \in RowsOf(catalog[id].sha256)
      BY <1>4, <2>1 DEF RowsOf, Listed
    <3> QED
      BY <1>2, <1>4, <3>1
  <2>2. CASE catalog[i].sha256 # catalog[id].sha256
    BY <1>2, <1>4, <2>2
  <2> QED
    BY <2>1, <2>2
<1>5. RowsGoOn
  BY <1>1, <1>3, <1>4, Shapes DEF RowsGoOn
<1>6. ReadyIsStored'
  <2> SUFFICES ASSUME NEW i \in Ids, catalog'[i] \in Row, catalog'[i].state = "ready"
               PROVE  catalog'[i].sha256 \in stored'
    BY DEF ReadyIsStored, Ready, Listed
  <2>1. i # id /\ catalog'[i] = catalog[i]
    BY <1>3, Shapes
  <2> QED
    BY <1>4, <2>1 DEF AssetInv, ReadyIsStored, Ready, Listed
<1> QED
  BY <1>1, <1>2, <1>5, <1>6

(* What a call knows of its row outlasts the steps of the others.          *)
LEMMA OthersGoOn ==
    ASSUME AssetInv, RowsGoOn, NEW q \in Callers, call'[q] = call[q]
    PROVE  MovesItsRow(q)'
<1> SUFFICES ASSUME call[q] \in Moving
             PROVE  /\ catalog'[call[q].id] # Unused
                    /\ catalog'[call[q].id] \in Row =>
                         /\ catalog'[call[q].id].sha256 = call[q].sha256
                         /\ call[q].at = "finalize" => call[q].sha256 \in stored'
                         /\ call[q].at = "meta" => catalog'[call[q].id].state = "ready"
  BY DEF MovesItsRow, Listed
<1>1. call[q].id \in Ids
  BY DEF Moving
<1>2. MovesItsRow(q)
  BY DEF AssetInv
<1> QED
  BY <1>1, <1>2 DEF MovesItsRow, Listed, RowsGoOn

(* A step of one caller: the others keep what they know.                   *)
LEMMA OneMoves ==
    ASSUME AssetInv, RowsGoOn, ReadyIsStored', NEW p \in Callers,
           catalog' \in [Ids -> {Unused, Deleted} \cup Row], stored' \subseteq Contents,
           UNCHANGED providers, ret' \in [Callers -> {Nothing} \cup Uploaded \cup Downloaded],
           NEW c \in {Idle} \cup Uploading \cup Moving, Goes(p, c),
           MovesItsRow(p)'
    PROVE  AssetInv'
<1>1. TypeOK'
  BY DEF AssetInv, TypeOK, Goes
<1>2. ASSUME NEW q \in Callers \ {p} PROVE MovesItsRow(q)'
  <2>1. call'[q] = call[q]
    BY DEF AssetInv, TypeOK, Goes
  <2> QED
    BY <2>1, OthersGoOn
<1> QED
  BY <1>1, <1>2 DEF AssetInv

(* Nothing is known of the row of a call that has ended or not begun.      *)
LEMMA NoRow ==
    ASSUME AssetInv, NEW p \in Callers, NEW c \in {Idle} \cup Uploading, Goes(p, c)
    PROVE  MovesItsRow(p)'
<1>1. call'[p] = c
  BY DEF AssetInv, TypeOK, Goes
<1> QED
  BY <1>1, Shapes DEF MovesItsRow

(* A step of one caller that leaves the rows alone and ends its call or    *)
(* goes on with the same row.                                              *)
LEMMA RowsAlone ==
    ASSUME AssetInv, NEW p \in Callers, UNCHANGED <<catalog, providers>>,
           stored' \subseteq Contents, stored \subseteq stored',
           ret' \in [Callers -> {Nothing} \cup Uploaded \cup Downloaded],
           NEW c \in {Idle} \cup Uploading \cup Moving, Goes(p, c),
           MovesItsRow(p)'
    PROVE  AssetInv'
<1>1. RowsGoOn
  BY NoRowChanges
<1>2. ReadyIsStored' /\ catalog' \in [Ids -> {Unused, Deleted} \cup Row]
  BY DEF AssetInv, TypeOK, ReadyIsStored, Ready, Listed
<1> QED
  BY <1>1, <1>2, OneMoves

LEMMA InitAssetInv == Init => AssetInv
<1> SUFFICES ASSUME Init PROVE AssetInv
  OBVIOUS
<1>1. \A id \in Ids : ~ Listed(id)
  BY Shapes DEF Init, Listed
<1>2. TypeOK
  BY DEF Init, TypeOK
<1>3. \A p \in Callers : MovesItsRow(p)
  BY Shapes DEF Init, MovesItsRow
<1> QED
  BY <1>1, <1>2, <1>3 DEF AssetInv, ReadyIsStored, Ready

LEMMA GrantInv ==
    ASSUME AssetInv, NEW p \in Callers, AssetUploadGrant(p)
    PROVE  AssetInv'
<1>1. PICK id \in Ids :
        /\ GrantRow(p, id)
        /\ Goes(p, [at |-> IF Exists(p) THEN "meta" ELSE IF providers THEN "put" ELSE "skipped",
                    id |-> id, sha256 |-> call[p].sha256])
  BY DEF AssetUploadGrant
<1> DEFINE c == [at |-> IF Exists(p) THEN "meta" ELSE IF providers THEN "put" ELSE "skipped",
                 id |-> id, sha256 |-> call[p].sha256]
<1>2. call[p].at = "grant" /\ UNCHANGED <<stored, providers, ret>> /\ TypeOK
  BY DEF AssetUploadGrant, AssetInv
<1>3. /\ c \in Moving /\ c.id = id /\ c.sha256 = call[p].sha256
      /\ c.at # "finalize" /\ (c.at = "meta" => Exists(p))
  BY <1>2, GrantShape DEF Moving
<1>4. Goes(p, c)
  BY <1>1
<1> HIDE DEF c
<1>5. call'[p] = c
  BY <1>2, <1>4 DEF TypeOK, Goes
<1>6. /\ RowsGoOn
      /\ catalog' \in [Ids -> {Unused, Deleted} \cup Row]
      /\ catalog'[id] \in Row /\ catalog'[id].sha256 = call[p].sha256
      /\ catalog'[id].state = IF Exists(p) THEN "ready" ELSE "pending"
      /\ ReadyIsStored'
  BY <1>1, <1>2, GrantRowGoesOn
<1>7. MovesItsRow(p)'
  BY <1>3, <1>5, <1>6, Shapes DEF MovesItsRow
<1>8. stored' \subseteq Contents /\ ret' \in [Callers -> {Nothing} \cup Uploaded \cup Downloaded]
  BY <1>2 DEF TypeOK
<1> QED
  BY <1>2, <1>3, <1>4, <1>6, <1>7, <1>8, OneMoves

LEMMA PutInv ==
    ASSUME AssetInv, NEW p \in Callers, Put(p)
    PROVE  AssetInv'
<1> DEFINE c == [call[p] EXCEPT !.at = "finalize"]
<1>1. /\ call[p].at = "put" /\ stored' = stored \cup {call[p].sha256} /\ Goes(p, c)
      /\ UNCHANGED <<catalog, providers, ret>> /\ TypeOK
  BY DEF Put, AssetInv
<1>2. call[p] \in Moving /\ call[p].sha256 \in Contents /\ MovesItsRow(p)
  BY <1>1, CallShape DEF AssetInv
<1>3. c \in Moving /\ c.id = call[p].id /\ c.sha256 = call[p].sha256 /\ c.at = "finalize"
  BY <1>2 DEF Moving
<1> HIDE DEF c
<1>4. call'[p] = c
  BY <1>1 DEF TypeOK, Goes
<1>5. MovesItsRow(p)'
  BY <1>1, <1>2, <1>3, <1>4 DEF MovesItsRow, Listed
<1>6. stored' \subseteq Contents /\ stored \subseteq stored'
      /\ ret' \in [Callers -> {Nothing} \cup Uploaded \cup Downloaded]
  BY <1>1, <1>2 DEF TypeOK
<1> QED
  BY <1>1, <1>3, <1>5, <1>6, RowsAlone

(* What the calls return.                                                  *)
LEMMA ReturnType ==
    ASSUME AssetInv, NEW p \in Callers, NEW v \in Uploaded \cup Downloaded, Returns(p, v)
    PROVE  /\ Goes(p, Idle) /\ MovesItsRow(p)'
           /\ ret' \in [Callers -> {Nothing} \cup Uploaded \cup Downloaded]
BY NoRow DEF Returns, AssetInv, TypeOK

LEMMA FinalizeInv ==
    ASSUME AssetInv, NEW p \in Callers, AssetFinalize(p)
    PROVE  AssetInv'
<1>1. /\ call[p].at = "finalize" /\ Listed(call[p].id) /\ MarkReady(call[p].id)
      /\ Returns(p, [id |-> call[p].id, sha256 |-> call[p].sha256])
      /\ UNCHANGED <<stored, providers>> /\ TypeOK
  BY DEF AssetFinalize, AssetInv
<1>2. [id |-> call[p].id, sha256 |-> call[p].sha256] \in Uploaded
  BY <1>1, CallShape DEF Uploaded
<1>3. /\ Goes(p, Idle) /\ MovesItsRow(p)'
      /\ ret' \in [Callers -> {Nothing} \cup Uploaded \cup Downloaded]
  BY <1>1, <1>2, ReturnType
<1>4. /\ RowsGoOn
      /\ catalog' \in [Ids -> {Unused, Deleted} \cup Row]
      /\ ReadyIsStored'
  BY <1>1, MarkReadyGoesOn
<1>5. stored' \subseteq Contents /\ UNCHANGED providers
  BY <1>1 DEF TypeOK
<1> QED
  BY <1>3, <1>4, <1>5, OneMoves

LEMMA UploadMetaInv ==
    ASSUME AssetInv, NEW p \in Callers, UploadMeta(p)
    PROVE  AssetInv'
<1>1. /\ call[p].at \in {"meta", "skipped"}
      /\ Returns(p, [id |-> call[p].id, sha256 |-> call[p].sha256])
      /\ UNCHANGED <<catalog, stored, providers>> /\ TypeOK
  BY DEF UploadMeta, AssetInv
<1>2. [id |-> call[p].id, sha256 |-> call[p].sha256] \in Uploaded
  BY <1>1, CallShape DEF Uploaded
<1>3. /\ Goes(p, Idle) /\ MovesItsRow(p)'
      /\ ret' \in [Callers -> {Nothing} \cup Uploaded \cup Downloaded]
  BY <1>1, <1>2, ReturnType
<1> QED
  BY <1>1, <1>3, RowsAlone DEF TypeOK

(* What a download may be answered with: its row's bytes, or a refusal     *)
(* that the provider or the row gives reason for.                          *)
LEMMA DownloadAnswers ==
    ASSUME AssetInv, NEW p \in Callers, Fetch(p) \/ Relay(p)
    PROVE  \E v \in Downloaded :
             /\ Answers(p, v)
             /\ \/ v = Bytes(call[p].sha256) /\ call[p].sha256 \in stored
                \/ v = Refused /\ (call[p].at = "fetch" \/ ~ Ready(call[p].id))
<1>1. call[p].at \in {"fetch", "relay"} /\ TypeOK
  BY DEF Fetch, Relay, AssetInv
<1>2. call[p] \in Moving /\ call[p].sha256 \in Contents
  BY <1>1, CallShape
<1>3. Bytes(call[p].sha256) \in Downloaded /\ Refused \in Downloaded
  BY <1>2 DEF Bytes, Downloaded
<1>4. CASE Fetch(p)
  BY <1>3, <1>4 DEF Fetch
<1>5. CASE Relay(p) /\ Ready(call[p].id)
  <2>1. MovesItsRow(p) /\ Listed(call[p].id)
    BY <1>5 DEF AssetInv, Ready
  <2>2. catalog[call[p].id].sha256 = call[p].sha256
    BY <1>2, <2>1 DEF MovesItsRow
  <2>3. call[p].id \in Ids
    BY <1>2 DEF Moving
  <2>4. call[p].sha256 \in stored
    BY <1>5, <2>2, <2>3 DEF AssetInv, ReadyIsStored
  <2> QED
    BY <1>3, <1>5, <2>2, <2>4 DEF Relay
<1>6. CASE Relay(p) /\ ~ Ready(call[p].id)
  BY <1>3, <1>6 DEF Relay
<1> QED
  BY <1>4, <1>5, <1>6

LEMMA DownloadInv ==
    ASSUME AssetInv, NEW p \in Callers, Fetch(p) \/ Relay(p)
    PROVE  AssetInv'
<1>1. PICK v \in Downloaded : Answers(p, v)
  BY DownloadAnswers
<1>2. Returns(p, v) /\ UNCHANGED <<catalog, stored, providers>> /\ TypeOK
  BY <1>1 DEF Answers, AssetInv
<1>3. /\ Goes(p, Idle) /\ MovesItsRow(p)'
      /\ ret' \in [Callers -> {Nothing} \cup Uploaded \cup Downloaded]
  BY <1>2, ReturnType
<1> QED
  BY <1>2, <1>3, RowsAlone DEF TypeOK

LEMMA ReplyLostInv ==
    ASSUME AssetInv, NEW p \in Callers, ReplyLost(p)
    PROVE  AssetInv'
<1>1. Goes(p, Idle) /\ UNCHANGED <<providers, ret>> /\ TypeOK
  BY DEF ReplyLost, AssetInv
<1>2. MovesItsRow(p)'
  BY <1>1, NoRow
<1>3. ret' \in [Callers -> {Nothing} \cup Uploaded \cup Downloaded]
  BY <1>1 DEF TypeOK
<1>4. CASE call[p].at = "grant" /\ (\E id \in Ids : GrantRow(p, id)) /\ UNCHANGED stored
  <2>1. RowsGoOn /\ ReadyIsStored' /\ catalog' \in [Ids -> {Unused, Deleted} \cup Row]
    BY <1>4, GrantRowGoesOn
  <2>2. stored' \subseteq Contents
    BY <1>1, <1>4 DEF TypeOK
  <2> QED
    BY <1>1, <1>2, <1>3, <2>1, <2>2, OneMoves
<1>5. CASE call[p].at = "put" /\ stored' = stored \cup {call[p].sha256} /\ UNCHANGED catalog
  <2>1. call[p].sha256 \in Contents
    BY <1>1, <1>5, CallShape
  <2>2. stored' \subseteq Contents /\ stored \subseteq stored'
    BY <1>1, <1>5, <2>1 DEF TypeOK
  <2> QED
    BY <1>1, <1>2, <1>3, <1>5, <2>2, RowsAlone
<1>6. CASE call[p].at = "finalize" /\ Listed(call[p].id) /\ MarkReady(call[p].id)
           /\ UNCHANGED stored
  <2>1. RowsGoOn /\ ReadyIsStored' /\ catalog' \in [Ids -> {Unused, Deleted} \cup Row]
    BY <1>6, MarkReadyGoesOn
  <2>2. stored' \subseteq Contents
    BY <1>1, <1>6 DEF TypeOK
  <2> QED
    BY <1>1, <1>2, <1>3, <2>1, <2>2, OneMoves
<1> QED
  BY <1>4, <1>5, <1>6 DEF ReplyLost

LEMMA UploadStartsInv ==
    ASSUME AssetInv, NEW p \in Callers, UploadStarts(p)
    PROVE  AssetInv'
<1>1. PICK n \in Names, s \in Contents : Goes(p, [at |-> "grant", name |-> n, sha256 |-> s])
  BY DEF UploadStarts
<1> DEFINE c == [at |-> "grant", name |-> n, sha256 |-> s]
<1>2. c \in Uploading /\ Goes(p, c)
  BY <1>1 DEF Uploading
<1> HIDE DEF c
<1>3. UNCHANGED <<catalog, stored, providers>> /\ TypeOK
      /\ ret' \in [Callers -> {Nothing} \cup Uploaded \cup Downloaded]
  BY DEF UploadStarts, AssetInv, TypeOK
<1>4. MovesItsRow(p)'
  BY <1>2, NoRow
<1> QED
  BY <1>2, <1>3, <1>4, RowsAlone DEF TypeOK

LEMMA DownloadStartsInv ==
    ASSUME AssetInv, NEW p \in Callers, DownloadStarts(p)
    PROVE  AssetInv'
<1>1. PICK id \in Ids : Listed(id) /\ Goes(p, [at |-> "ask", id |-> id, sha256 |-> catalog[id].sha256])
  BY DEF DownloadStarts
<1> DEFINE c == [at |-> "ask", id |-> id, sha256 |-> catalog[id].sha256]
<1>2. catalog[id] \in Row /\ catalog[id].sha256 \in Contents
  BY <1>1 DEF Listed, Row
<1>3. c \in Moving /\ Goes(p, c) /\ c.id = id /\ c.sha256 = catalog[id].sha256 /\ c.at = "ask"
  BY <1>1, <1>2 DEF Moving
<1> HIDE DEF c
<1>4. UNCHANGED <<catalog, stored, providers>> /\ TypeOK
      /\ ret' \in [Callers -> {Nothing} \cup Uploaded \cup Downloaded]
  BY DEF DownloadStarts, AssetInv, TypeOK
<1>5. call'[p] = c
  BY <1>3, <1>4 DEF TypeOK, Goes
<1>6. MovesItsRow(p)'
  BY <1>2, <1>3, <1>4, <1>5, Shapes DEF MovesItsRow
<1> QED
  BY <1>3, <1>4, <1>6, RowsAlone DEF TypeOK

LEMMA DownloadURLInv ==
    ASSUME AssetInv, NEW p \in Callers, DownloadURL(p)
    PROVE  AssetInv'
<1>1. PICK at \in {"fetch", "relay"} : Goes(p, [call[p] EXCEPT !.at = at])
  BY DEF DownloadURL
<1> DEFINE c == [call[p] EXCEPT !.at = at]
<1>2. call[p].at = "ask" /\ UNCHANGED <<catalog, stored, providers, ret>> /\ TypeOK
  BY DEF DownloadURL, AssetInv
<1>3. call[p] \in Moving /\ MovesItsRow(p)
  BY <1>2, CallShape DEF AssetInv
<1>4. /\ c \in Moving /\ Goes(p, c) /\ c.id = call[p].id /\ c.sha256 = call[p].sha256
      /\ c.at \in {"fetch", "relay"}
  BY <1>1, <1>3 DEF Moving
<1> HIDE DEF c
<1>5. call'[p] = c
  BY <1>2, <1>4 DEF TypeOK, Goes
<1>6. MovesItsRow(p)'
  BY <1>2, <1>3, <1>4, <1>5 DEF MovesItsRow, Listed
<1> QED
  BY <1>2, <1>4, <1>6, RowsAlone DEF TypeOK

LEMMA FailsInv ==
    ASSUME AssetInv, NEW p \in Callers, Fails(p)
    PROVE  AssetInv'
<1>1. Goes(p, Idle) /\ UNCHANGED <<catalog, stored, providers, ret>> /\ TypeOK
  BY DEF Fails, AssetInv
<1>2. MovesItsRow(p)'
  BY <1>1, NoRow
<1> QED
  BY <1>1, <1>2, RowsAlone DEF TypeOK

LEMMA DeleteInv ==
    ASSUME AssetInv, NEW id \in Ids, AssetDelete(id)
    PROVE  AssetInv'
<1>1. /\ RowsGoOn /\ stored' \subseteq stored
      /\ catalog' \in [Ids -> {Unused, Deleted} \cup Row]
      /\ ReadyIsStored'
  BY DeleteGoesOn
<1>2. UNCHANGED <<providers, call, ret>>
  BY DEF AssetDelete
<1>3. TypeOK'
  BY <1>1, <1>2 DEF AssetInv, TypeOK
<1>4. \A p \in Callers : MovesItsRow(p)'
  BY <1>1, <1>2, OthersGoOn
<1> QED
  BY <1>1, <1>3, <1>4 DEF AssetInv

LEMMA SwitchInv ==
    ASSUME AssetInv, DockSwitches \/ UNCHANGED vars
    PROVE  AssetInv'
<1>1. UNCHANGED <<catalog, stored, call, ret>> /\ providers' \in BOOLEAN
  BY DEF DockSwitches, vars, AssetInv, TypeOK
<1>2. RowsGoOn
  BY <1>1, NoRowChanges
<1>3. \A p \in Callers : MovesItsRow(p)'
  BY <1>1, <1>2, OthersGoOn
<1> QED
  BY <1>1, <1>3 DEF AssetInv, TypeOK, ReadyIsStored, Ready, Listed

LEMMA NextAssetInv == AssetInv /\ [Next]_vars => AssetInv'
<1> SUFFICES ASSUME AssetInv, [Next]_vars PROVE AssetInv'
  OBVIOUS
<1>3. ASSUME NEW p \in Callers, Step(p) PROVE AssetInv'
  BY <1>3, UploadStartsInv, GrantInv, PutInv, FinalizeInv, UploadMetaInv, ReplyLostInv,
     FailsInv, DownloadStartsInv, DownloadURLInv, DownloadInv DEF Step
<1> QED
  BY <1>3, DeleteInv, SwitchInv DEF Next

(* Rows, blobs and the calls under way agree in every reachable state.     *)
THEOREM AssetInvariant == Spec => []AssetInv
BY InitAssetInv, NextAssetInv, PTL DEF Spec

(* A row is ready only while the provider holds its bytes.                 *)
THEOREM AssetReadyIsStored == Spec => []ReadyIsStored
<1>1. AssetInv => ReadyIsStored
  BY DEF AssetInv
<1> QED
  BY <1>1, AssetInvariant, PTL

----------------------------------------------------------------------------
(* Only the end of a call of its own gives a caller something.             *)
LEMMA WhoReturns ==
    ASSUME AssetInv, [Next]_vars, NEW p \in Callers, ret'[p] # ret[p], ret'[p] # Nothing
    PROVE  AssetFinalize(p) \/ UploadMeta(p) \/ Fetch(p) \/ Relay(p)
<1>1. ret \in [Callers -> {Nothing} \cup Uploaded \cup Downloaded]
  BY DEF AssetInv, TypeOK
<1>2. CASE DockSwitches \/ UNCHANGED vars \/ \E id \in Ids : AssetDelete(id)
  BY <1>2 DEF DockSwitches, vars, AssetDelete
<1>3. ASSUME NEW q \in Callers, Step(q)
      PROVE  AssetFinalize(p) \/ UploadMeta(p) \/ Fetch(p) \/ Relay(p)
  <2>1. CASE UploadStarts(q) \/ DownloadStarts(q)
    <3>1. ret' = [ret EXCEPT ![q] = Nothing]
      BY <2>1 DEF UploadStarts, DownloadStarts
    <3> QED
      BY <1>1, <3>1
  <2>2. CASE AssetUploadGrant(q) \/ Put(q) \/ ReplyLost(q) \/ Fails(q) \/ DownloadURL(q)
    BY <2>2 DEF AssetUploadGrant, Put, ReplyLost, Fails, DownloadURL
  <2>3. CASE AssetFinalize(q) \/ UploadMeta(q) \/ Fetch(q) \/ Relay(q)
    <3>1. PICK v : ret' = [ret EXCEPT ![q] = v]
      BY <2>3 DEF AssetFinalize, UploadMeta, Fetch, Relay, Answers, Returns
    <3>2. q = p
      BY <1>1, <3>1
    <3> QED
      BY <2>3, <3>2
  <2> QED
    BY <1>3, <2>1, <2>2, <2>3 DEF Step
<1> QED
  BY <1>2, <1>3 DEF Next

(* What a download returns is not what an upload returns.                  *)
LEMMA AnswerIsDownload ==
    ASSUME AssetInv, NEW p \in Callers, Fetch(p) \/ Relay(p)
    PROVE  ret'[p] \notin Uploaded
<1>1. PICK v \in Downloaded : /\ Answers(p, v)
                              /\ v = Bytes(call[p].sha256) \/ v = Refused
  BY DownloadAnswers
<1>2. TypeOK /\ call[p].sha256 \in Contents
  BY CallShape DEF AssetInv, Fetch, Relay
<1>3. v \notin Uploaded
  BY <1>1, <1>2, Shapes DEF Bytes
<1>4. ret' = [ret EXCEPT ![p] = v]
  BY <1>1 DEF Answers, Returns
<1> QED
  BY <1>2, <1>3, <1>4 DEF TypeOK

LEMMA FinalizeStores ==
    ASSUME AssetInv, NEW p \in Callers, AssetFinalize(p)
    PROVE  /\ catalog'[ret'[p].id] \in Row /\ catalog'[ret'[p].id].state = "ready"
           /\ catalog'[ret'[p].id].sha256 = ret'[p].sha256 /\ ret'[p].sha256 \in stored'
<1>1. TypeOK /\ ret' = [ret EXCEPT ![p] = [id |-> call[p].id, sha256 |-> call[p].sha256]]
  BY DEF AssetInv, AssetFinalize, Returns
<1>2. ret'[p].id = call[p].id /\ ret'[p].sha256 = call[p].sha256
  BY <1>1 DEF TypeOK
<1>3. /\ catalog'[call[p].id] \in Row /\ catalog'[call[p].id].state = "ready"
      /\ catalog'[call[p].id].sha256 = call[p].sha256 /\ call[p].sha256 \in stored'
  BY MarkReadyGoesOn DEF AssetFinalize
<1> QED
  BY <1>2, <1>3

LEMMA MetaIsStored ==
    ASSUME AssetInv, NEW p \in Callers, UploadMeta(p), call[p].at # "skipped"
    PROVE  /\ catalog'[ret'[p].id] \in Row /\ catalog'[ret'[p].id].state = "ready"
           /\ catalog'[ret'[p].id].sha256 = ret'[p].sha256 /\ ret'[p].sha256 \in stored'
<1>1. /\ TypeOK /\ ret' = [ret EXCEPT ![p] = [id |-> call[p].id, sha256 |-> call[p].sha256]]
      /\ call[p].at = "meta" /\ Listed(call[p].id) /\ UNCHANGED <<catalog, stored>>
  BY DEF AssetInv, UploadMeta, Returns
<1>2. ret'[p].id = call[p].id /\ ret'[p].sha256 = call[p].sha256
  BY <1>1 DEF TypeOK
<1>3. call[p] \in Moving /\ call[p].id \in Ids /\ MovesItsRow(p)
  BY <1>1, CallShape DEF AssetInv
<1>4. /\ catalog[call[p].id] \in Row /\ catalog[call[p].id].state = "ready"
      /\ catalog[call[p].id].sha256 = call[p].sha256
  BY <1>1, <1>3 DEF MovesItsRow, Listed
<1>5. call[p].sha256 \in stored
  BY <1>3, <1>4 DEF AssetInv, ReadyIsStored, Ready, Listed
<1> QED
  BY <1>1, <1>2, <1>4, <1>5

(* An upload that returns has its bytes stored and its own row ready,      *)
(* unless dock had no provider.                                            *)
THEOREM AssetUploadIsStored == Spec => UploadIsStored
<1> DEFINE Stored == \A p \in Callers :
         (ret'[p] \in Uploaded /\ ret[p] # ret'[p] /\ call[p].at # "skipped") =>
         /\ catalog'[ret'[p].id] \in Row
         /\ catalog'[ret'[p].id].state = "ready"
         /\ catalog'[ret'[p].id].sha256 = ret'[p].sha256
         /\ ret'[p].sha256 \in stored'
<1>1. AssetInv /\ [Next]_vars => [Stored]_vars
  <2> SUFFICES ASSUME AssetInv, [Next]_vars, NEW p \in Callers,
                      ret'[p] \in Uploaded, ret[p] # ret'[p], call[p].at # "skipped"
               PROVE  /\ catalog'[ret'[p].id] \in Row
                      /\ catalog'[ret'[p].id].state = "ready"
                      /\ catalog'[ret'[p].id].sha256 = ret'[p].sha256
                      /\ ret'[p].sha256 \in stored'
    OBVIOUS
  <2>1. AssetFinalize(p) \/ UploadMeta(p)
    BY WhoReturns, AnswerIsDownload, Shapes
  <2> QED
    BY <2>1, FinalizeStores, MetaIsStored
<1> HIDE DEF Stored
<1>2. Spec => [][Stored]_vars
  BY <1>1, AssetInvariant, PTL DEF Spec
<1> QED
  BY <1>2 DEF UploadIsStored, Stored

(* A download that is answered with bytes has those of its row, which are  *)
(* stored; it is refused by a provider or for a row gone or not ready.     *)
THEOREM AssetDownloadIsServed == Spec => DownloadIsServed
<1> DEFINE Served == \A p \in Callers :
         (ret'[p] \in Downloaded /\ ret[p] # ret'[p]) =>
         \/ ret'[p] = Bytes(call[p].sha256) /\ call[p].sha256 \in stored
         \/ ret'[p] = Refused /\ (call[p].at = "fetch" \/ ~ Ready(call[p].id))
<1>1. AssetInv /\ [Next]_vars => [Served]_vars
  <2> SUFFICES ASSUME AssetInv, [Next]_vars, NEW p \in Callers,
                      ret'[p] \in Downloaded, ret[p] # ret'[p]
               PROVE  \/ ret'[p] = Bytes(call[p].sha256) /\ call[p].sha256 \in stored
                      \/ ret'[p] = Refused /\ (call[p].at = "fetch" \/ ~ Ready(call[p].id))
    OBVIOUS
  <2>1. Nothing \notin Downloaded
    BY DEF Downloaded, Refused, Nothing
  <2>2. ret \in [Callers -> {Nothing} \cup Uploaded \cup Downloaded] /\ TypeOK
    BY DEF AssetInv, TypeOK
  <2>3. CASE AssetFinalize(p) \/ UploadMeta(p)
    <3>1. ret' = [ret EXCEPT ![p] = [id |-> call[p].id, sha256 |-> call[p].sha256]]
      BY <2>3 DEF AssetFinalize, UploadMeta, Returns
    <3>2. ret'[p] = [id |-> call[p].id, sha256 |-> call[p].sha256]
      BY <2>2, <3>1
    <3> QED
      BY <3>2 DEF Downloaded, Refused
  <2>4. CASE Fetch(p) \/ Relay(p)
    <3>1. PICK v \in Downloaded :
             /\ Answers(p, v)
             /\ \/ v = Bytes(call[p].sha256) /\ call[p].sha256 \in stored
                \/ v = Refused /\ (call[p].at = "fetch" \/ ~ Ready(call[p].id))
      BY <2>4, DownloadAnswers
    <3>2. ret' = [ret EXCEPT ![p] = v]
      BY <3>1 DEF Answers, Returns
    <3>3. ret'[p] = v
      BY <2>2, <3>2
    <3> QED
      BY <3>1, <3>3
  <2> QED
    BY <2>1, <2>3, <2>4, WhoReturns
<1> HIDE DEF Served
<1>2. Spec => [][Served]_vars
  BY <1>1, AssetInvariant, PTL DEF Spec
<1> QED
  BY <1>2 DEF DownloadIsServed, Served
=============================================================================
