---------------------------- MODULE ComputeTasks ----------------------------
(* Compute tasks of one plugin: its goroutines submit tasks to dock and    *)
(* drive them through their life by signed requests, the fleet runs them,  *)
(* and dock posts a signed callback that the plugin's endpoint verifies.   *)
(* Requests, replies and callbacks are lost, delayed, repeated, reordered  *)
(* or altered on the way.  The two clocks differ by a constant.  An empty  *)
(* argument or a client without a key returns an error at once and changes *)
(* nothing.                                                                *)
EXTENDS Integers, FiniteSets, GoMap

CONSTANTS Me, Other,    \* this plugin and another one, and their keys
          Refs,         \* requester_ref values, each with an endpoint of its own
          Skews,        \* the plugin's clock minus dock's
          Window,       \* how far a timestamp may be off (300s)
          CallTimeout,  \* the HTTP client's timeout (15s)
          TaskIds,      \* bound: ids of tasks
          MaxCalls, MaxPosts, MaxClock  \* bounds

ASSUME TaskAssumption ==
    /\ Me # Other /\ Skews \subseteq Int
    /\ {Window, CallTimeout, MaxCalls, MaxPosts, MaxClock} \subseteq Nat

VARIABLES clock,    \* dock's clock
          skew,     \* the plugin's clock minus dock's
          tasks,    \* dock's rows
          wire,     \* requests on their way to dock
          calls,    \* calls made so far
          waiting,  \* waiting[n]: call n, whose goroutine waits, and its reply
          told,     \* what the calls that returned nil said, where it lasts
          posts     \* the callbacks dock has posted

taskVars == <<clock, skew, tasks, wire, calls, waiting, told, posts>>

MyClock == clock + skew

Final == {"done", "failed", "cancelled"}
Waiting == {"hold", "queued", "paused"}
Statuses == Waiting \cup {"running"} \cup Final

None == [none |-> TRUE]

TaskInit == /\ clock = 0
            /\ skew \in Skews
            /\ \/ tasks = EmptyMap
               \/ \E id \in TaskIds, owner \in {Me, Other}, ref \in Refs,
                     status \in {"hold", "paused"} :
                    tasks = Store(EmptyMap, id, [owner |-> owner, ref |-> ref, status |-> status])
            /\ wire = {} /\ calls = 0 /\ told = {} /\ posts = {}
            /\ waiting = EmptyMap

----------------------------------------------------------------------------
(* The arguments of the SDK's calls.                                       *)
Submission == [op : {"submit"}, ref : Refs, auto : BOOLEAN]
Listing == [op : {"list"}, ref : Refs]
OnTask == [op : {"get", "release", "pause", "resume", "cancel", "priority"}, id : DOMAIN tasks]

Stamp == MyClock

(* DoContext: the request is stamped with the plugin's clock and sent.  It *)
(* may stay on its way for ever.                                           *)
Call ==
    /\ calls < MaxCalls
    /\ \E a \in Submission \cup Listing \cup OnTask :
         LET r == [n |-> calls + 1, ts |-> Stamp, args |-> a]
         IN  /\ wire' = wire \cup {r}
             /\ waiting' = Store(waiting, r.n, [req |-> r, reply |-> None])
    /\ calls' = calls + 1
    /\ UNCHANGED <<clock, skew, tasks, told, posts>>

(* The plugin's own rows, which are all that its calls reach.              *)
Mine == {id \in DOMAIN tasks : tasks[id].owner = Me}

From == [get |-> Statuses, release |-> {"hold"}, pause |-> {"queued"}, resume |-> {"paused"},
         cancel |-> Statuses \ Final, priority |-> Waiting]

To(op, s) == CASE op \in {"release", "resume"} -> "queued"
               [] op = "pause" -> "paused"
               [] op = "cancel" -> "cancelled"
               [] OTHER -> s

Allowed(r) ==
    /\ clock - r.ts \in -Window .. Window
    /\ r.args.op \notin {"submit", "list"} =>
         r.args.id \in Mine /\ tasks[r.args.id].status \in From[r.args.op]

(* The answer reaches the caller if it still waits for it.                 *)
Answer(r, x) ==
    waiting' = IF Has(waiting, r.n) THEN [waiting EXCEPT ![r.n].reply = x] ELSE waiting

Submits(r) ==
    /\ r.args.op = "submit"
    /\ \E id \in TaskIds \ DOMAIN tasks :
         /\ tasks' = Store(tasks, id, [owner |-> Me, ref |-> r.args.ref,
                                       status |-> IF r.args.auto THEN "queued" ELSE "hold"])
         /\ Answer(r, [ok |-> TRUE, id |-> id])

Lists(r) ==
    /\ r.args.op = "list"
    /\ Answer(r, [ok |-> TRUE, ids |-> {id \in Mine : tasks[id].ref = r.args.ref}])
    /\ UNCHANGED tasks

Drives(r) ==
    /\ r.args.op \notin {"submit", "list"}
    /\ tasks' = [tasks EXCEPT ![r.args.id].status = To(r.args.op, @)]
    /\ Answer(r, [ok |-> TRUE, status |-> tasks'[r.args.id].status])

(* Dock takes a request, whose caller may have given up, and answers.      *)
DockTakes ==
    \E r \in wire :
      /\ wire' = wire \ {r}
      /\ \/ Allowed(r) /\ (Submits(r) \/ Lists(r) \/ Drives(r))
         \/ ~ Allowed(r) /\ Answer(r, [ok |-> FALSE]) /\ UNCHANGED tasks
      /\ UNCHANGED <<clock, skew, calls, told, posts>>

(* Broken variant: any answer is a success.                                *)
AnyAnswer(x) == x # None

(* readJSON: an answer that is not 2xx is an error.                        *)
IsNil(x) == x # None /\ x.ok

Returns(n) ==
    /\ IsNil(waiting[n].reply)
    /\ LET a == waiting[n].req.args
       IN  told' = IF a.op \in {"pause", "resume", "priority"} THEN told
                   ELSE told \cup {[args |-> a, reply |-> waiting[n].reply]}
    /\ waiting' = Without(waiting, n)
    /\ UNCHANGED <<clock, skew, tasks, wire, calls, posts>>

(* A refusal, a lost reply or one that does not parse, or a timeout: the   *)
(* request may still take effect.                                          *)
Fails(n) ==
    /\ waiting' = Without(waiting, n)
    /\ UNCHANGED <<clock, skew, tasks, wire, calls, told, posts>>

(* The fleet claims a queued task and ends a running one.                  *)
FleetRuns ==
    /\ \E id \in DOMAIN tasks :
         \/ tasks[id].status = "queued" /\ tasks' = [tasks EXCEPT ![id].status = "running"]
         \/ tasks[id].status = "running"
            /\ \E s \in {"done", "failed"} : tasks' = [tasks EXCEPT ![id].status = s]
    /\ UNCHANGED <<clock, skew, wire, calls, waiting, told, posts>>

----------------------------------------------------------------------------
(* A signature stands for the key and the canonical string.                *)
Signature(key, method, path, ts, body) ==
    [key |-> key, method |-> method, path |-> path, ts |-> ts, body |-> body]

(* Dock posts, or posts once more, the callback of a task that has ended.  *)
DockPosts ==
    /\ Cardinality(posts) < MaxPosts
    /\ \E id \in DOMAIN tasks :
         LET t == tasks[id]
             body == [id |-> id, ref |-> t.ref, status |-> t.status]
         IN  /\ t.status \in Final
             /\ posts' = posts \cup {Signature(t.owner, "POST", t.ref, clock, body)}
    /\ UNCHANGED <<clock, skew, tasks, wire, calls, waiting, told>>

(* Broken variant: the signature leaves the body out.                      *)
VerifyNoBody(method, path, ts, body, sig) ==
    /\ MyClock - ts \in -Window .. Window
    /\ \E b \in {x.body : x \in posts} : sig = Signature(Me, method, path, ts, b)

VerifyDockCallback(method, path, ts, body, sig) ==
    /\ MyClock - ts \in -Window .. Window
    /\ sig = Signature(Me, method, path, ts, body)

(* What a post arrives as, at any time and any number of times: as it was  *)
(* posted, with another method, at another endpoint, with a changed body   *)
(* or with a new timestamp.  Verifying it changes nothing.  What lacks a   *)
(* header is refused before anything is read.                              *)
Arrivals ==
    UNION {{[method |-> h, path |-> p, ts |-> ts, body |-> [m.body EXCEPT !.status = s], post |-> m] :
              h \in {"POST", "PUT"}, p \in Refs, ts \in {m.ts, MyClock}, s \in Final} : m \in posts}

Accepted(x) == VerifyDockCallback(x.method, x.path, x.ts, x.body, x.post)

Intact(x) == x.post = Signature(Me, x.method, x.path, x.ts, x.body)

ClockTicks ==
    /\ clock < MaxClock
    /\ \A n \in DOMAIN waiting : MyClock < waiting[n].req.ts + CallTimeout
    /\ clock' = clock + 1
    /\ UNCHANGED <<skew, tasks, wire, calls, waiting, told, posts>>

TaskNext ==
    \/ Call \/ \E n \in DOMAIN waiting : Returns(n) \/ Fails(n)
    \/ DockTakes \/ FleetRuns \/ DockPosts \/ ClockTicks

TaskSpec == TaskInit /\ [][TaskNext]_taskVars

----------------------------------------------------------------------------
(* The types of the variables.                                             *)
TaskTypeOK ==
    /\ clock \in 0 .. MaxClock /\ skew \in Skews /\ calls \in 0 .. MaxCalls
    /\ DOMAIN tasks \subseteq TaskIds
    /\ \A id \in DOMAIN tasks :
         tasks[id] \in [owner : {Me, Other}, ref : Refs, status : Statuses]
    /\ \A r \in wire : r.n <= calls /\ r.ts <= MyClock
    /\ \A n \in DOMAIN waiting : n <= calls /\ waiting[n].req.n = n
    /\ \A m \in posts : m.key \in {Me, Other} /\ m.ts <= clock

(* What a call with arguments a that was answered x was told is so.        *)
Done(a, x) ==
    /\ a.op = "submit" => /\ x.id \in Mine /\ tasks[x.id].ref = a.ref
                          /\ a.auto => tasks[x.id].status # "hold"
    /\ a.op = "list" => \A id \in x.ids : id \in Mine /\ tasks[id].ref = a.ref
    /\ a.op \in {"cancel", "release", "get"} => a.id \in Mine
    /\ a.op = "cancel" => tasks[a.id].status = "cancelled"
    /\ a.op = "release" => tasks[a.id].status # "hold"
    /\ a.op = "get" /\ x.status \in Final => tasks[a.id].status = x.status

(* A call that returned nil took effect, whatever other callers, the fleet *)
(* and late requests of callers that gave up do before and after it: a     *)
(* submitted row stands under the caller's ref, a cancelled task stays     *)
(* cancelled, a released one is never on hold again, a final status that   *)
(* was read is final, and a listing names own tasks of the ref.            *)
NilMeansDone == \A t \in told : Done(t.args, t.reply)

(* An accepted callback tells the truth about a task of this plugin: it    *)
(* reached the endpoint the task was submitted with, and the task ended as *)
(* it says, although the submit may have failed for its caller, the        *)
(* callback may be late, repeated or changed on the way, and a cancel may  *)
(* have raced the task's end.                                              *)
AcceptedIsTrue ==
    \A x \in Arrivals : Accepted(x) =>
      /\ x.body.id \in Mine
      /\ tasks[x.body.id].ref = x.body.ref /\ x.path = x.body.ref /\ x.method = "POST"
      /\ tasks[x.body.id].status = x.body.status

(* A callback is accepted only within Window of its posting by the         *)
(* plugin's clock, and an intact one on both ends of the window.           *)
AcceptedInWindow ==
    \A x \in Arrivals :
      LET late == MyClock - x.post.ts
      IN  /\ Accepted(x) => late \in -Window .. Window
          /\ Intact(x) /\ late \in -Window .. Window => Accepted(x)

(* What an endpoint acts upon is true, and no older or newer than the      *)
(* window allows; nothing intact and in time is turned away.               *)
CallbacksSound == AcceptedIsTrue /\ AcceptedInWindow
=============================================================================
