------------------------- MODULE ComputeTasksProofs -------------------------
(* Proofs about ComputeTasks, for any number of refs, calls and callbacks, *)
(* any windows and any skew of the two clocks.                             *)
EXTENDS ComputeTasks, TLAPS

TaskRow == [owner : {Me, Other}, ref : Refs, status : Statuses]

Args == Submission \cup Listing \cup
        [op : {"get", "release", "pause", "resume", "cancel", "priority"}, id : TaskIds]

TasksOK == /\ DOMAIN tasks \subseteq TaskIds
           /\ tasks \in [DOMAIN tasks -> TaskRow]

(* A request is its call's own, and calls are numbered in order.           *)
RequestsOK ==
    /\ calls \in Nat
    /\ \A r \in wire : /\ r.n \in 1 .. calls /\ r.args \in Args
                       /\ r.n \in DOMAIN waiting => waiting[r.n].req = r
    /\ waiting = [n \in DOMAIN waiting |-> waiting[n]]
    /\ \A n \in DOMAIN waiting :
         /\ n \in 1 .. calls /\ waiting[n].req.n = n
         /\ waiting[n] = [req |-> waiting[n].req, reply |-> waiting[n].reply]

(* A callback that dock has posted tells of a task as it is: ended.        *)
PostOK(m) ==
    /\ m = Signature(m.key, "POST", m.path, m.ts, m.body)
    /\ m.body = [id |-> m.body.id, ref |-> m.body.ref, status |-> m.body.status]
    /\ m.body.id \in DOMAIN tasks
    /\ tasks[m.body.id] = [owner |-> m.key, ref |-> m.path, status |-> m.body.status]
    /\ m.body.ref = m.path /\ m.body.status \in Final

PostsOK == \A m \in posts : PostOK(m)

RepliesOK ==
    \A n \in DOMAIN waiting :
      IsNil(waiting[n].reply) => Done(waiting[n].req.args, waiting[n].reply)

TaskInv == TasksOK /\ RequestsOK /\ PostsOK /\ RepliesOK /\ NilMeansDone

(* What no step ever does: take a row away, hand it to another owner or    *)
(* ref, change a final status or put a task back on hold.                  *)
Keeps ==
    \A id \in DOMAIN tasks :
      /\ id \in DOMAIN tasks'
      /\ tasks'[id].owner = tasks[id].owner /\ tasks'[id].ref = tasks[id].ref
      /\ tasks[id].status \in Final => tasks'[id] = tasks[id]
      /\ tasks[id].status # "hold" => tasks'[id].status # "hold"

----------------------------------------------------------------------------
LEMMA InitTaskInv == TaskInit => TaskInv
<1> SUFFICES ASSUME TaskInit PROVE TaskInv
  OBVIOUS
<1>1. TasksOK
  <2>1. CASE tasks = EmptyMap
    BY <2>1 DEF EmptyMap, TasksOK
  <2>2. ASSUME NEW id \in TaskIds, NEW owner \in {Me, Other}, NEW ref \in Refs,
               NEW status \in {"hold", "paused"},
               tasks = Store(EmptyMap, id, [owner |-> owner, ref |-> ref, status |-> status])
        PROVE  TasksOK
    BY <2>2 DEF EmptyMap, Store, TasksOK, TaskRow, Statuses, Waiting
  <2> QED
    BY <2>1, <2>2 DEF TaskInit
<1>2. RequestsOK /\ PostsOK /\ RepliesOK /\ NilMeansDone
  BY DEF TaskInit, EmptyMap, RequestsOK, PostsOK, RepliesOK, NilMeansDone
<1> QED
  BY <1>1, <1>2 DEF TaskInv

(* A row that is added, or whose status moves on, is kept in this sense.   *)
LEMMA AddKeeps ==
    ASSUME TasksOK, NEW id \in TaskIds \ DOMAIN tasks, NEW row \in TaskRow,
           tasks' = Store(tasks, id, row)
    PROVE  /\ TasksOK' /\ Keeps
           /\ id \in DOMAIN tasks' /\ tasks'[id] = row
BY DEF TasksOK, Keeps, Store, TaskRow

LEMMA MoveKeeps ==
    ASSUME TasksOK, NEW id \in DOMAIN tasks, NEW s \in Statuses,
           tasks' = [tasks EXCEPT ![id].status = s],
           tasks[id].status \in Final => s = tasks[id].status,
           tasks[id].status # "hold" => s # "hold"
    PROVE  /\ TasksOK' /\ Keeps
           /\ DOMAIN tasks' = DOMAIN tasks
           /\ tasks'[id] = [owner |-> tasks[id].owner, ref |-> tasks[id].ref, status |-> s]
<1>1. tasks[id] \in TaskRow
  BY DEF TasksOK
<1>2. tasks' = [tasks EXCEPT ![id] = [owner |-> tasks[id].owner, ref |-> tasks[id].ref, status |-> s]]
  <2>1. [tasks[id] EXCEPT !.status = s]
          = [owner |-> tasks[id].owner, ref |-> tasks[id].ref, status |-> s]
    BY <1>1 DEF TaskRow
  <2> QED
    BY <2>1
<1>3. [owner |-> tasks[id].owner, ref |-> tasks[id].ref, status |-> s] \in TaskRow
  BY <1>1 DEF TaskRow
<1>4. /\ DOMAIN tasks' = DOMAIN tasks
      /\ tasks'[id] = [owner |-> tasks[id].owner, ref |-> tasks[id].ref, status |-> s]
      /\ \A i \in DOMAIN tasks : i # id => tasks'[i] = tasks[i]
  BY <1>2 DEF TasksOK
<1>5. TasksOK'
  BY <1>2, <1>3, <1>4 DEF TasksOK
<1>6. s = tasks[id].status => tasks'[id] = tasks[id]
  BY <1>1, <1>4 DEF TaskRow
<1>7. Keeps
  BY <1>4, <1>6 DEF Keeps
<1> QED
  BY <1>4, <1>5, <1>7

LEMMA SameKeeps == ASSUME TasksOK, tasks' = tasks PROVE TasksOK' /\ Keeps
BY DEF TasksOK, Keeps

(* What was told, and what was posted, stays true.                         *)
LEMMA DoneStays ==
    ASSUME Keeps, NEW a, NEW x, Done(a, x)
    PROVE  Done(a, x)'
BY DEF Keeps, Done, Mine, Final

LEMMA PostStays ==
    ASSUME Keeps, NEW m, PostOK(m)
    PROVE  PostOK(m)'
BY DEF Keeps, PostOK, Signature

(* So does every answer that is not a new one.                             *)
LEMMA RepliesStay ==
    ASSUME RepliesOK, Keeps,
           \A n \in DOMAIN waiting' :
             \/ n \in DOMAIN waiting /\ waiting'[n] = waiting[n]
             \/ ~ IsNil(waiting'[n].reply)
             \/ \E a, x : waiting'[n].req.args = a /\ waiting'[n].reply = x /\ Done(a, x)'
    PROVE  RepliesOK'
<1> SUFFICES ASSUME NEW n \in DOMAIN waiting', IsNil(waiting[n].reply)'
             PROVE  Done(waiting[n].req.args, waiting[n].reply)'
  BY DEF RepliesOK
<1>1. ASSUME NEW a, NEW x, waiting'[n].req.args = a, waiting'[n].reply = x, Done(a, x)'
      PROVE  Done(waiting[n].req.args, waiting[n].reply)'
  BY <1>1 DEF Done, Mine
<1>2. CASE n \in DOMAIN waiting /\ waiting'[n] = waiting[n]
  <2>1. PICK a, x : a = waiting[n].req.args /\ x = waiting[n].reply
    OBVIOUS
  <2>2. Done(a, x)
    BY <1>2, <2>1 DEF RepliesOK
  <2>3. Done(a, x)'
    BY <2>2, DoneStays
  <2> QED
    BY <1>1, <1>2, <2>1, <2>3
<1>3. CASE ~ IsNil(waiting'[n].reply)
  BY <1>3 DEF IsNil
<1> QED
  BY <1>1, <1>2, <1>3

LEMMA ToldStays == ASSUME NilMeansDone, Keeps, told' = told PROVE NilMeansDone'
BY DoneStays DEF NilMeansDone

LEMMA PostsStay == ASSUME PostsOK, Keeps, posts' = posts PROVE PostsOK'
BY PostStays DEF PostsOK

----------------------------------------------------------------------------
(* The steps of a request.                                                 *)
LEMMA CallInv ==
    ASSUME TaskInv, Call
    PROVE  TaskInv'
<1>1. PICK a \in Submission \cup Listing \cup OnTask :
        /\ wire' = wire \cup {[n |-> calls + 1, ts |-> Stamp, args |-> a]}
        /\ waiting' = Store(waiting, calls + 1,
                            [req |-> [n |-> calls + 1, ts |-> Stamp, args |-> a], reply |-> None])
  BY DEF Call
<1> DEFINE r == [n |-> calls + 1, ts |-> Stamp, args |-> a]
<1>2. calls \in Nat /\ calls' = calls + 1 /\ UNCHANGED <<tasks, told, posts>>
  BY DEF Call, TaskInv, RequestsOK
<1>3. TasksOK' /\ Keeps
  BY <1>2, SameKeeps DEF TaskInv
<1>4. a \in Args
  BY <1>1 DEF Args, OnTask, TaskInv, TasksOK
<1>5. /\ DOMAIN waiting' = DOMAIN waiting \cup {calls + 1} /\ calls + 1 \notin DOMAIN waiting
      /\ waiting'[calls + 1] = [req |-> r, reply |-> None]
      /\ \A n \in DOMAIN waiting : waiting'[n] = waiting[n]
      /\ waiting' = [n \in DOMAIN waiting' |-> waiting'[n]]
  BY <1>1, <1>2 DEF Store, TaskInv, RequestsOK
<1>6. RequestsOK'
  <2>1. ASSUME NEW q \in wire'
        PROVE  /\ q.n \in 1 .. calls' /\ q.args \in Args
               /\ q.n \in DOMAIN waiting' => waiting'[q.n].req = q
    <3>1. CASE q = r
      BY <1>2, <1>4, <1>5, <3>1
    <3>2. CASE q \in wire
      <4>1. q.n \in 1 .. calls /\ q.n # calls + 1
        BY <1>2, <3>2 DEF TaskInv, RequestsOK
      <4> QED
        BY <1>2, <1>5, <3>2, <4>1 DEF TaskInv, RequestsOK
    <3> QED
      BY <1>1, <3>1, <3>2
  <2>2. \A n \in DOMAIN waiting' :
          /\ n \in 1 .. calls' /\ waiting'[n].req.n = n
          /\ waiting'[n] = [req |-> waiting'[n].req, reply |-> waiting'[n].reply]
    <3>1. \A n \in DOMAIN waiting :
            /\ n \in 1 .. calls /\ waiting[n].req.n = n
            /\ waiting[n] = [req |-> waiting[n].req, reply |-> waiting[n].reply]
      BY DEF TaskInv, RequestsOK
    <3> QED
      BY <1>2, <1>5, <3>1
  <2> QED
    BY <1>2, <1>5, <2>1, <2>2 DEF RequestsOK
<1>7. RepliesOK'
  <2>1. \A n \in DOMAIN waiting' :
          \/ n \in DOMAIN waiting /\ waiting'[n] = waiting[n]
          \/ ~ IsNil(waiting'[n].reply)
    BY <1>5 DEF IsNil
  <2> QED
    BY <1>3, <2>1, RepliesStay DEF TaskInv
<1>8. PostsOK' /\ NilMeansDone'
  BY <1>2, <1>3, ToldStays, PostsStay DEF TaskInv
<1> QED
  BY <1>3, <1>6, <1>7, <1>8 DEF TaskInv

(* The answer of request r is x, and true.                                 *)
LEMMA AnswerInv ==
    ASSUME TaskInv, NEW r \in wire, NEW x, Answer(r, x), Keeps,
           IsNil(x) => Done(r.args, x)', wire' \subseteq wire, UNCHANGED calls
    PROVE  RequestsOK' /\ RepliesOK'
<1>1. /\ DOMAIN waiting' = DOMAIN waiting
      /\ waiting' = [n \in DOMAIN waiting' |-> waiting'[n]]
      /\ \A n \in DOMAIN waiting : n # r.n => waiting'[n] = waiting[n]
  BY DEF Answer, TaskInv, RequestsOK, Has
<1>2. r.n \in DOMAIN waiting => waiting'[r.n] = [req |-> r, reply |-> x]
  <2> SUFFICES ASSUME r.n \in DOMAIN waiting
               PROVE  waiting'[r.n] = [req |-> r, reply |-> x]
    OBVIOUS
  <2>1. waiting[r.n] = [req |-> r, reply |-> waiting[r.n].reply]
    BY DEF TaskInv, RequestsOK
  <2>2. waiting'[r.n] = [waiting[r.n] EXCEPT !.reply = x]
    BY DEF Answer, Has, TaskInv, RequestsOK
  <2> QED
    BY <2>1, <2>2
<1>3. RequestsOK'
  <2>1. \A q \in wire' : /\ q.n \in 1 .. calls' /\ q.args \in Args
                        /\ q.n \in DOMAIN waiting' => waiting'[q.n].req = q
    <3> SUFFICES ASSUME NEW q \in wire'
                 PROVE  /\ q.n \in 1 .. calls' /\ q.args \in Args
                        /\ q.n \in DOMAIN waiting' => waiting'[q.n].req = q
      OBVIOUS
    <3>1. /\ q.n \in 1 .. calls' /\ q.args \in Args
          /\ q.n \in DOMAIN waiting => waiting[q.n].req = q
          /\ r.n \in DOMAIN waiting => waiting[r.n].req = r
      BY DEF TaskInv, RequestsOK
    <3> QED
      BY <1>1, <1>2, <3>1
  <2>2. \A n \in DOMAIN waiting' :
          /\ n \in 1 .. calls' /\ waiting'[n].req.n = n
          /\ waiting'[n] = [req |-> waiting'[n].req, reply |-> waiting'[n].reply]
    <3>1. \A n \in DOMAIN waiting :
            /\ n \in 1 .. calls /\ waiting[n].req.n = n
            /\ waiting[n] = [req |-> waiting[n].req, reply |-> waiting[n].reply]
            /\ n = r.n => waiting[n].req = r
      BY DEF TaskInv, RequestsOK
    <3> QED
      BY <1>1, <1>2, <3>1
  <2> QED
    BY <1>1, <2>1, <2>2 DEF TaskInv, RequestsOK
<1>4. RepliesOK'
  <2>1. ASSUME NEW n \in DOMAIN waiting'
        PROVE  \/ n \in DOMAIN waiting /\ waiting'[n] = waiting[n]
               \/ ~ IsNil(waiting'[n].reply)
               \/ \E a, y : waiting'[n].req.args = a /\ waiting'[n].reply = y /\ Done(a, y)'
    <3>1. PICK a : a = r.args
      OBVIOUS
    <3>2. CASE n = r.n /\ IsNil(x)
      <4>1. waiting'[n].req.args = a /\ waiting'[n].reply = x
        BY <1>1, <1>2, <2>1, <3>1, <3>2
      <4>2. Done(a, x)'
        BY <3>1, <3>2
      <4> QED
        BY <4>1, <4>2
    <3>3. CASE n = r.n /\ ~ IsNil(x)
      BY <1>1, <1>2, <2>1, <3>3
    <3>4. CASE n # r.n
      BY <1>1, <2>1, <3>4
    <3> QED
      BY <3>2, <3>3, <3>4
  <2> QED
    BY <2>1, RepliesStay DEF TaskInv
<1> QED
  BY <1>3, <1>4

LEMMA SubmitsInv ==
    ASSUME TaskInv, NEW r \in wire, Submits(r)
    PROVE  /\ TasksOK' /\ Keeps
           /\ \E x : Answer(r, x) /\ (IsNil(x) => Done(r.args, x)')
<1>1. PICK id \in TaskIds \ DOMAIN tasks :
        /\ tasks' = Store(tasks, id, [owner |-> Me, ref |-> r.args.ref,
                                      status |-> IF r.args.auto THEN "queued" ELSE "hold"])
        /\ Answer(r, [ok |-> TRUE, id |-> id])
  BY DEF Submits
<1>2. r.args.op = "submit" /\ r.args \in Submission
  BY DEF Submits, TaskInv, RequestsOK, Args, Submission, Listing
<1> DEFINE row == [owner |-> Me, ref |-> r.args.ref,
                   status |-> IF r.args.auto THEN "queued" ELSE "hold"]
<1>3. row \in TaskRow
  BY <1>2 DEF Submission, TaskRow, Statuses, Waiting
<1>4. TasksOK' /\ Keeps /\ id \in DOMAIN tasks' /\ tasks'[id] = row
  <2> HIDE DEF row
  <2>1. tasks' = Store(tasks, id, row)
    BY <1>1 DEF row
  <2> QED
    BY <1>3, <2>1, AddKeeps DEF TaskInv
<1>5. PICK a, x : a = r.args /\ x = [ok |-> TRUE, id |-> id]
  OBVIOUS
<1>6. Done(a, x)'
  BY <1>2, <1>4, <1>5 DEF Done, Mine
<1>7. Done(r.args, x)'
  BY <1>5, <1>6
<1> QED
  BY <1>1, <1>4, <1>5, <1>7

LEMMA ListsInv ==
    ASSUME TaskInv, NEW r \in wire, Lists(r)
    PROVE  /\ TasksOK' /\ Keeps
           /\ \E x : Answer(r, x) /\ (IsNil(x) => Done(r.args, x)')
<1>1. PICK x : x = [ok |-> TRUE, ids |-> {id \in Mine : tasks[id].ref = r.args.ref}]
  OBVIOUS
<1>2. r.args.op = "list" /\ tasks' = tasks /\ Answer(r, x)
  BY <1>1 DEF Lists
<1>3. Done(r.args, x)'
  BY <1>1, <1>2 DEF Done, Mine
<1> QED
  BY <1>2, <1>3, SameKeeps DEF TaskInv

LEMMA DrivesInv ==
    ASSUME TaskInv, NEW r \in wire, Drives(r), Allowed(r)
    PROVE  /\ TasksOK' /\ Keeps
           /\ \E x : Answer(r, x) /\ (IsNil(x) => Done(r.args, x)')
<1>1. /\ r.args \in [op : {"get", "release", "pause", "resume", "cancel", "priority"}, id : TaskIds]
      /\ r.args.id \in Mine /\ tasks[r.args.id].status \in From[r.args.op]
  BY DEF Drives, Allowed, TaskInv, RequestsOK, Args, Submission, Listing
<1>2. PICK a : a = r.args
  OBVIOUS
<1>3. PICK s : s = To(a.op, tasks[a.id].status)
  OBVIOUS
<1>4. /\ a.id \in DOMAIN tasks /\ tasks[a.id].owner = Me
      /\ tasks[a.id].status \in Statuses
      /\ tasks' = [tasks EXCEPT ![a.id].status = s]
  BY <1>1, <1>2, <1>3 DEF Drives, Mine, TaskInv, TasksOK, TaskRow
<1>5. /\ s \in Statuses
      /\ tasks[a.id].status \in Final => s = tasks[a.id].status
      /\ tasks[a.id].status # "hold" => s # "hold"
      /\ a.op = "cancel" => s = "cancelled"
      /\ a.op = "release" => s # "hold"
  BY <1>1, <1>2, <1>3, <1>4 DEF From, To, Statuses, Waiting, Final
<1>6. /\ TasksOK' /\ Keeps /\ DOMAIN tasks' = DOMAIN tasks
      /\ tasks'[a.id] = [owner |-> tasks[a.id].owner, ref |-> tasks[a.id].ref, status |-> s]
  BY <1>4, <1>5, MoveKeeps DEF TaskInv
<1>7. PICK x : x = [ok |-> TRUE, status |-> s]
  OBVIOUS
<1>8. Answer(r, x)
  <2>1. tasks'[r.args.id].status = s
    BY <1>2, <1>6
  <2> QED
    BY <1>7, <2>1 DEF Drives
<1>9. Done(a, x)'
  BY <1>1, <1>2, <1>4, <1>5, <1>6, <1>7 DEF Done, Mine
<1> QED
  BY <1>2, <1>6, <1>8, <1>9

LEMMA DockTakesInv ==
    ASSUME TaskInv, DockTakes
    PROVE  TaskInv'
<1>1. PICK r \in wire :
        /\ wire' = wire \ {r}
        /\ \/ Allowed(r) /\ (Submits(r) \/ Lists(r) \/ Drives(r))
           \/ ~ Allowed(r) /\ Answer(r, [ok |-> FALSE]) /\ UNCHANGED tasks
        /\ UNCHANGED <<clock, skew, calls, told, posts>>
  BY DEF DockTakes
<1>2. /\ TasksOK' /\ Keeps
      /\ \E x : Answer(r, x) /\ (IsNil(x) => Done(r.args, x)')
  <2>1. CASE ~ Allowed(r) /\ Answer(r, [ok |-> FALSE]) /\ UNCHANGED tasks
    <3>1. PICK x : x = [ok |-> FALSE]
      OBVIOUS
    <3>2. ~ IsNil(x) /\ Answer(r, x)
      BY <2>1, <3>1 DEF IsNil
    <3> QED
      BY <2>1, <3>2, SameKeeps DEF TaskInv
  <2> QED
    BY <1>1, <2>1, SubmitsInv, ListsInv, DrivesInv
<1>3. PICK x : Answer(r, x) /\ (IsNil(x) => Done(r.args, x)')
  BY <1>2
<1>4. RequestsOK' /\ RepliesOK'
  BY <1>1, <1>2, <1>3, AnswerInv
<1>5. PostsOK' /\ NilMeansDone'
  BY <1>1, <1>2, ToldStays, PostsStay DEF TaskInv
<1> QED
  BY <1>2, <1>4, <1>5 DEF TaskInv

(* A call that returns, or gives up.                                       *)
LEMMA EndsWaiting ==
    ASSUME TaskInv, NEW n \in DOMAIN waiting, waiting' = Without(waiting, n),
           UNCHANGED <<tasks, wire, calls, posts>>
    PROVE  TasksOK' /\ Keeps /\ RequestsOK' /\ RepliesOK' /\ PostsOK'
<1>1. TasksOK' /\ Keeps
  BY SameKeeps DEF TaskInv
<1>2. /\ DOMAIN waiting' \subseteq DOMAIN waiting
      /\ \A k \in DOMAIN waiting' : waiting'[k] = waiting[k]
      /\ waiting' = [k \in DOMAIN waiting' |-> waiting'[k]]
  BY DEF Without
<1>3. RequestsOK'
  <2>1. \A k \in DOMAIN waiting :
          /\ k \in 1 .. calls /\ waiting[k].req.n = k
          /\ waiting[k] = [req |-> waiting[k].req, reply |-> waiting[k].reply]
    BY DEF TaskInv, RequestsOK
  <2> QED
    BY <1>2, <2>1 DEF TaskInv, RequestsOK
<1>4. RepliesOK'
  BY <1>1, <1>2, RepliesStay DEF TaskInv
<1> QED
  BY <1>1, <1>3, <1>4, PostsStay DEF TaskInv

LEMMA ReturnsInv ==
    ASSUME TaskInv, NEW n \in DOMAIN waiting, Returns(n)
    PROVE  TaskInv'
<1>1. TasksOK' /\ Keeps /\ RequestsOK' /\ RepliesOK' /\ PostsOK'
  BY EndsWaiting DEF Returns
<1>2. NilMeansDone'
  <2>1. PICK a, x : a = waiting[n].req.args /\ x = waiting[n].reply
    OBVIOUS
  <2>2. Done(a, x)
    BY <2>1 DEF Returns, TaskInv, RepliesOK
  <2>3. told' \subseteq told \cup {[args |-> a, reply |-> x]}
    BY <2>1 DEF Returns
  <2>4. ASSUME NEW t \in told'
        PROVE  Done(t.args, t.reply)'
    <3>1. CASE t \in told
      BY <1>1, <3>1, DoneStays DEF TaskInv, NilMeansDone
    <3>2. CASE t = [args |-> a, reply |-> x]
      <4>1. Done(a, x)' /\ t.args = a /\ t.reply = x
        BY <1>1, <2>2, <3>2, DoneStays
      <4> QED
        BY <4>1
    <3> QED
      BY <2>3, <3>1, <3>2
  <2> QED
    BY <2>4 DEF NilMeansDone
<1> QED
  BY <1>1, <1>2 DEF TaskInv

LEMMA FailsInv ==
    ASSUME TaskInv, NEW n \in DOMAIN waiting, Fails(n)
    PROVE  TaskInv'
<1>1. TasksOK' /\ Keeps /\ RequestsOK' /\ RepliesOK' /\ PostsOK'
  BY EndsWaiting DEF Fails
<1> QED
  BY <1>1, ToldStays DEF TaskInv, Fails

(* The steps that leave requests and calls alone.                          *)
LEMMA CallsStay ==
    ASSUME TaskInv, TasksOK', Keeps, PostsOK', UNCHANGED <<wire, calls, waiting, told>>
    PROVE  TaskInv'
<1>1. RequestsOK'
  BY DEF TaskInv, RequestsOK
<1>2. RepliesOK'
  BY RepliesStay DEF TaskInv
<1> QED
  BY <1>1, <1>2, ToldStays DEF TaskInv

LEMMA FleetRunsInv ==
    ASSUME TaskInv, FleetRuns
    PROVE  TaskInv'
<1>1. PICK id \in DOMAIN tasks, s \in {"running", "done", "failed"} :
        /\ tasks[id].status \in {"queued", "running"}
        /\ tasks' = [tasks EXCEPT ![id].status = s]
  BY DEF FleetRuns
<1>2. s \in Statuses /\ s # "hold" /\ tasks[id].status \notin Final
  BY <1>1 DEF Statuses, Final
<1>3. TasksOK' /\ Keeps
  BY <1>1, <1>2, MoveKeeps DEF TaskInv
<1> QED
  BY <1>3, PostsStay, CallsStay DEF FleetRuns, TaskInv

LEMMA DockPostsInv ==
    ASSUME TaskInv, DockPosts
    PROVE  TaskInv'
<1>1. PICK id \in DOMAIN tasks :
        /\ tasks[id].status \in Final
        /\ posts' = posts \cup {Signature(tasks[id].owner, "POST", tasks[id].ref, clock,
                     [id |-> id, ref |-> tasks[id].ref, status |-> tasks[id].status])}
  BY DEF DockPosts
<1>2. tasks' = tasks /\ TasksOK' /\ Keeps
  BY SameKeeps DEF DockPosts, TaskInv
<1>3. tasks[id] \in TaskRow
  BY DEF TaskInv, TasksOK
<1>4. ASSUME NEW m \in posts'
      PROVE  PostOK(m)'
  <2>1. CASE m \in posts
    BY <1>2, <2>1, PostStays DEF TaskInv, PostsOK
  <2>2. CASE m = Signature(tasks[id].owner, "POST", tasks[id].ref, clock,
                           [id |-> id, ref |-> tasks[id].ref, status |-> tasks[id].status])
    BY <1>1, <1>2, <1>3, <2>2 DEF PostOK, Signature, TaskRow
  <2> QED
    BY <1>1, <2>1, <2>2
<1>5. PostsOK'
  BY <1>4 DEF PostsOK
<1> QED
  BY <1>2, <1>5, CallsStay DEF DockPosts

LEMMA TaskStep == TaskInv /\ [TaskNext]_taskVars => TaskInv'
<1> SUFFICES ASSUME TaskInv, [TaskNext]_taskVars PROVE TaskInv'
  OBVIOUS
<1>1. CASE Call
  BY <1>1, CallInv
<1>2. ASSUME NEW n \in DOMAIN waiting, Returns(n) \/ Fails(n)
      PROVE  TaskInv'
  BY <1>2, ReturnsInv, FailsInv
<1>3. CASE DockTakes \/ FleetRuns \/ DockPosts
  BY <1>3, DockTakesInv, FleetRunsInv, DockPostsInv
<1>4. CASE ClockTicks \/ UNCHANGED taskVars
  <2>1. UNCHANGED <<tasks, wire, calls, waiting, told, posts>>
    BY <1>4 DEF ClockTicks, taskVars
  <2> QED
    BY <2>1, SameKeeps, PostsStay, CallsStay DEF TaskInv
<1> QED
  BY <1>1, <1>2, <1>3, <1>4 DEF TaskNext

----------------------------------------------------------------------------
StampsOK == (\A r \in wire : r.ts \in Int) /\ (\A m \in posts : m.ts \in Int)

LEMMA TypeStep ==
    TaskInv /\ TaskTypeOK /\ StampsOK /\ [TaskNext]_taskVars => (TaskTypeOK /\ StampsOK)'
<1> SUFFICES ASSUME TaskInv, TaskTypeOK, StampsOK, [TaskNext]_taskVars
             PROVE  (TaskTypeOK /\ StampsOK)'
  OBVIOUS
<1>1. TasksOK' /\ RequestsOK' /\ calls \in Nat
  BY TaskStep DEF TaskInv, RequestsOK
<1>2. /\ \A id \in DOMAIN tasks' : tasks'[id] \in [owner : {Me, Other}, ref : Refs, status : Statuses]
      /\ DOMAIN tasks' \subseteq TaskIds
  BY <1>1 DEF TasksOK, TaskRow
<1>3. \A n \in DOMAIN waiting' : n <= calls' /\ waiting'[n].req.n = n
  BY <1>1 DEF RequestsOK
<1> USE TaskAssumption DEF TaskTypeOK, StampsOK, MyClock
<1>4. CASE Call
  <2>1. PICK a : wire' = wire \cup {[n |-> calls + 1, ts |-> Stamp, args |-> a]}
    BY <1>4 DEF Call
  <2>2. /\ clock \in Int /\ skew \in Int /\ calls < MaxCalls /\ calls' = calls + 1
        /\ UNCHANGED <<clock, skew, tasks, posts>>
    BY <1>4 DEF Call
  <2>3. ASSUME NEW r \in wire'
        PROVE  r.n <= calls' /\ r.ts <= MyClock' /\ r.ts \in Int
    <3>1. CASE r \in wire
      BY <1>1, <2>2, <3>1 DEF TaskInv, RequestsOK
    <3>2. CASE r = [n |-> calls + 1, ts |-> Stamp, args |-> a]
      BY <1>1, <2>2, <3>2 DEF Stamp
    <3> QED
      BY <2>1, <3>1, <3>2
  <2> QED
    BY <1>1, <1>2, <1>3, <2>2, <2>3
<1>5. CASE DockPosts
  <2>1. PICK id \in DOMAIN tasks :
          posts' = posts \cup {Signature(tasks[id].owner, "POST", tasks[id].ref, clock,
                                         [id |-> id, ref |-> tasks[id].ref,
                                          status |-> tasks[id].status])}
    BY <1>5 DEF DockPosts
  <2> QED
    BY <1>2, <1>3, <1>5, <2>1 DEF DockPosts, Signature
<1>6. CASE DockTakes \/ FleetRuns \/ ClockTicks \/ UNCHANGED taskVars
  BY <1>2, <1>3, <1>6 DEF DockTakes, FleetRuns, ClockTicks, taskVars
<1>7. ASSUME NEW n \in DOMAIN waiting, Returns(n) \/ Fails(n)
      PROVE  (TaskTypeOK /\ StampsOK)'
  BY <1>2, <1>3, <1>7 DEF Returns, Fails
<1> QED
  BY <1>4, <1>5, <1>6, <1>7 DEF TaskNext

(* The types of the variables.                                             *)
THEOREM TasksTypes == TaskSpec => []TaskTypeOK
<1>1. TaskInit => TaskTypeOK /\ StampsOK
  <2> SUFFICES ASSUME TaskInit PROVE TaskTypeOK /\ StampsOK
    OBVIOUS
  <2>1. TasksOK
    BY InitTaskInv DEF TaskInv
  <2> QED
    BY <2>1, TaskAssumption DEF TaskInit, TaskTypeOK, StampsOK, TasksOK, TaskRow, EmptyMap
<1> QED
  BY <1>1, InitTaskInv, TaskStep, TypeStep, PTL DEF TaskSpec

(* A call that returned nil took effect, for good.                         *)
THEOREM TasksNilMeansDone == TaskSpec => []NilMeansDone
<1>1. TaskInv => NilMeansDone
  BY DEF TaskInv
<1> QED
  BY <1>1, InitTaskInv, TaskStep, PTL DEF TaskSpec

LEMMA PostsAreTrue == ASSUME PostsOK PROVE AcceptedIsTrue
<1> SUFFICES ASSUME NEW x \in Arrivals, Accepted(x)
             PROVE  /\ x.body.id \in Mine
                    /\ tasks[x.body.id].ref = x.body.ref /\ x.path = x.body.ref
                    /\ x.method = "POST"
                    /\ tasks[x.body.id].status = x.body.status
  BY DEF AcceptedIsTrue
<1>1. PICK m \in posts : x.post = m
  BY DEF Arrivals
<1>2. m = Signature(Me, x.method, x.path, x.ts, x.body)
  BY <1>1 DEF Accepted, VerifyDockCallback
<1>3. m.key = Me /\ m.method = x.method /\ m.path = x.path /\ m.body = x.body
  BY <1>2 DEF Signature
<1>4. PostOK(m)
  BY DEF PostsOK
<1>5. m.method = "POST"
  BY <1>4 DEF PostOK, Signature
<1> QED
  BY <1>3, <1>4, <1>5 DEF PostOK, Mine

(* What VerifyDockCallback accepts is true of a task of this plugin.       *)
THEOREM TasksAcceptedIsTrue == TaskSpec => []AcceptedIsTrue
<1>1. TaskInv => AcceptedIsTrue
  BY PostsAreTrue DEF TaskInv
<1> QED
  BY <1>1, InitTaskInv, TaskStep, PTL DEF TaskSpec

(* It accepts a callback only near its posting, and an intact one then.    *)
THEOREM TasksAcceptedInWindow == TaskSpec => []AcceptedInWindow
<1>1. AcceptedInWindow
  BY DEF AcceptedInWindow, Accepted, Intact, VerifyDockCallback, Signature
<1> QED
  BY <1>1, PTL

(* What an endpoint acts upon is true of a task and on time.               *)
THEOREM TasksCallbacksSound == TaskSpec => []CallbacksSound
<1>1. AcceptedIsTrue /\ AcceptedInWindow => CallbacksSound
  BY DEF CallbacksSound
<1> QED
  BY <1>1, TasksAcceptedIsTrue, TasksAcceptedInWindow, PTL
=============================================================================
