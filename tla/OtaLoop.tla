------------------------------ MODULE OtaLoop ------------------------------
(* The loop around SelfUpdate: each caller heartbeats the version it runs, *)
(* takes dock's directive from the answer and hands it to SelfApply, while *)
(* dock changes its mind.  A heartbeat that fails, or whose answer is lost *)
(* or empty, changes nothing here.                                         *)
EXTENDS SelfUpdate

CONSTANT Offers   \* directives as dock sends them

VARIABLES offer,   \* the release dock wants the module on, None for any
          answer   \* answer[p]: the directive of p's last heartbeat

loopVars == <<vars, offer, answer>>

(* Broken variant: the URL is left as dock sent it.                        *)
AsSent(d) == d

(* HeartbeatV2 makes a dock-relative URL absolute.                         *)
Resolved(d) == IF d.url = "path" THEN [d EXCEPT !.url = "absolute"] ELSE d

ASSUME OffersAssumption == \A d \in Offers : {d, Resolved(d)} \subseteq Directives

LoopInit == /\ Init
            /\ offer \in Offers \cup {None}
            /\ answer = [p \in Callers |-> None]

----------------------------------------------------------------------------
(* HeartbeatV2: dock answers a version that it does not want with a        *)
(* directive.                                                              *)
Beat(p) ==
    /\ image # Down /\ call[p] = Idle /\ answer[p] = None
    /\ offer # None /\ offer.version # VersionOf[image]
    /\ answer' = [answer EXCEPT ![p] = Resolved(offer)]
    /\ UNCHANGED <<vars, offer>>

(* SelfApply hands a binary to SelfUpdate; an archive, for which this      *)
(* module has no destRoot, and an incomplete directive are errors.         *)
Applies(p) ==
    /\ answer[p] # None
    /\ \/ Begins(p, answer[p])
       \/ /\ ~ (IsBinary(answer[p]) /\ answer[p].url # "" /\ answer[p].sha256 # None)
          /\ UNCHANGED vars
    /\ answer' = [answer EXCEPT ![p] = None]
    /\ UNCHANGED offer

Goes(p) == Proceeds(p) /\ UNCHANGED offer
           /\ answer' = IF image' = Down THEN [q \in Callers |-> None] ELSE answer

(* An operator publishes another release, or withdraws it.                 *)
DockOffers ==
    /\ offer' \in Offers \cup {None}
    /\ UNCHANGED <<vars, answer>>

(* The process dies with its callers' answers, and is restarted.           *)
Dies == Crash /\ answer' = [p \in Callers |-> None] /\ UNCHANGED offer

Rises == Restart /\ UNCHANGED <<offer, answer>>

Loop(p) == Beat(p) \/ Applies(p) \/ Goes(p)

LoopNext == (\E p \in Callers : Loop(p)) \/ DockOffers \/ Dies \/ Rises

(* The heartbeat's timer goes on, every call has a timeout, and the        *)
(* supervisor restarts what ended unsuccessfully.                          *)
LoopSpec == /\ LoopInit /\ [][LoopNext]_loopVars
            /\ \A p \in Callers : WF_loopVars(Loop(p))
            /\ WF_loopVars(Rises)

----------------------------------------------------------------------------
(* What may stop an update: dock changes its mind, the process dies early, *)
(* a sound call fails or storage serves other bytes.                       *)
Sound(c) == \/ c.at = "download" /\ c.d.url = "absolute"
            \/ c.at = "verify" /\ Verified(c.d, c.tmp)
            \/ c.at = "swap"

Trouble ==
    \/ offer' # offer
    \/ image' = Down /\ image # Down /\ ~ \E p \in Callers : call[p].at = "exit"
    \/ \E p \in Callers :
         \/ Sound(call[p]) /\ call'[p] = Idle /\ image' # Down
         \/ call[p].at = "download" /\ call'[p].at = "verify" /\ call'[p].tmp # call[p].d.sha256

(* A complete binary release that passes the gate and reports, once it     *)
(* runs, the version it is offered as.                                     *)
GoodOffer ==
    /\ offer # None /\ IsBinary(offer) /\ offer.url # "" /\ offer.sha256 # None
    /\ Verified(offer, offer.sha256)
    /\ VersionOf[offer.sha256] = offer.version

(* When dock settles on a good release and trouble ends, the module ends   *)
(* up running that release for good, whatever it was running, and whatever *)
(* overlapping calls with older answers install in between.                *)
Converges ==
    (<>[]GoodOffer /\ <>[][~ Trouble]_loopVars) =>
      <>[](GoodOffer => image = offer.sha256)
=============================================================================
