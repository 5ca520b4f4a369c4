---------------------------- MODULE TaskBinding ----------------------------
(* The workflow package: a plugin inserts bindings of tasks (bot, chat     *)
(* thread, LLM thread, each possibly nil) in a table of its own, and reads *)
(* rows back into one binding variable, whose copies it collects.  A field *)
(* is a pointer: 0 is nil, any other address is a cell of memory.          *)
EXTENDS Naturals, Sequences, GoMap

CONSTANTS Bots, Threads,      \* values of the columns
          Aliases,            \* table aliases a query may use, "" among them
          MaxRows, MaxCells, MaxCopies  \* bounds

VARIABLES rows,      \* the table: for each row its value by column
          meant,     \* what the plugin meant to insert as each row
          cells,     \* the memory: a value by address
          binding,   \* the variable rows are read into
          collected  \* copies of it, with the row each was read from

bindingVars == <<rows, meant, cells, binding, collected>>

NULL == [null |-> TRUE]

Columns == <<"bot_user_id", "chat_thread_id", "llm_thread_id">>

(* The column list of a query, each column with the table it is taken of.  *)
ColumnsPrefixed(prefix) ==
    IF prefix = "" THEN [i \in 1 .. 3 |-> <<"", Columns[i]>>]
    ELSE << <<prefix, "bot_user_id">>, <<prefix, "chat_thread_id">>,
            <<prefix, "llm_thread_id">> >>

Values == [bot_user_id : Bots \cup {NULL}, chat_thread_id : Threads \cup {NULL},
           llm_thread_id : Threads \cup {NULL}]

Cols == {"bot_user_id", "chat_thread_id", "llm_thread_id"}

Unset == [c \in Cols |-> 0]

BindingInit == /\ rows = <<>> /\ meant = <<>> /\ collected = <<>>
               /\ cells = <<>>
               /\ binding = Unset

----------------------------------------------------------------------------
(* stringArg, int64Arg, with the memory they read.                         *)
Arg(mem, p) == IF p = 0 THEN NULL ELSE mem[p]

InsertArgs(mem, b) ==
    <<Arg(mem, b.bot_user_id), Arg(mem, b.chat_thread_id), Arg(mem, b.llm_thread_id)>>

(* INSERT INTO ... (Columns) VALUES (InsertArgs(b)).                       *)
Insert(mem, b, v) ==
    /\ Len(rows) < MaxRows
    /\ rows' = Append(rows, [c \in Cols |->
                               InsertArgs(mem, b)[CHOOSE i \in 1 .. 3 : Columns[i] = c]])
    /\ meant' = Append(meant, v)
    /\ cells' = mem
    /\ UNCHANGED <<binding, collected>>

(* A task of the plugin's own, then one that copies a binding it has read. *)
InsertOwn ==
    \E v \in Values :
      LET n == Len(cells)
          at(c, k) == IF v[c] = NULL THEN 0 ELSE k
      IN  Insert(cells \o <<v.bot_user_id, v.chat_thread_id, v.llm_thread_id>>,
                 [bot_user_id |-> at("bot_user_id", n + 1),
                  chat_thread_id |-> at("chat_thread_id", n + 2),
                  llm_thread_id |-> at("llm_thread_id", n + 3)], v)

InsertCopy ==
    \E i \in DOMAIN collected : Insert(cells, collected[i].copy, meant[collected[i].row])

(* Broken variant: the value is written where the pointer points.          *)
ScanInPlace(m, c, v) ==
    IF v = NULL THEN [m EXCEPT !.b[c] = 0]
    ELSE IF m.b[c] # 0 THEN [m EXCEPT !.mem[m.b[c]] = v]
    ELSE [b |-> [m.b EXCEPT ![c] = Len(m.mem) + 1], mem |-> Append(m.mem, v)]

(* nullableString.Scan, nullableInt64.Scan: a fresh cell, or nil.          *)
Scan(m, c, v) ==
    IF v = NULL THEN [m EXCEPT !.b[c] = 0]
    ELSE [b |-> [m.b EXCEPT ![c] = Len(m.mem) + 1], mem |-> Append(m.mem, v)]

(* row.Scan writes column after column and stops at one it cannot read.    *)
Scanned(row, prefix, n) ==
    LET value(i) == row[ColumnsPrefixed(prefix)[i][2]]
        m0 == [b |-> binding, mem |-> cells]
        m1 == IF n >= 1 THEN Scan(m0, "bot_user_id", value(1)) ELSE m0
        m2 == IF n >= 2 THEN Scan(m1, "chat_thread_id", value(2)) ELSE m1
    IN  IF n = 3 THEN Scan(m2, "llm_thread_id", value(3)) ELSE m2

ReadRow ==
    /\ Len(cells) + 3 <= MaxCells /\ Len(collected) < MaxCopies
    /\ \E k \in DOMAIN rows, prefix \in Aliases, n \in 0 .. 3 :
         LET m == Scanned(rows[k], prefix, n)
         IN  /\ cells' = m.mem
             /\ binding' = m.b
             /\ collected' = IF n = 3 THEN Append(collected, [row |-> k, copy |-> m.b])
                             ELSE collected
    /\ UNCHANGED <<rows, meant>>

BindingNext == InsertOwn \/ InsertCopy \/ ReadRow

BindingSpec == BindingInit /\ [][BindingNext]_bindingVars

IsBound(b) == b.bot_user_id # 0 /\ b.chat_thread_id # 0

----------------------------------------------------------------------------
(* The types of the variables.                                             *)
BindingTypeOK ==
    /\ rows \in Seq(Values) /\ meant \in Seq(Values)
    /\ cells \in Seq(Bots \cup Threads \cup {NULL})
    /\ binding \in [Cols -> 0 .. Len(cells)]
    /\ collected \in Seq([row : 1 .. Len(rows), copy : [Cols -> 0 .. Len(cells)]])

(* Memory mem holds at the addresses of b what row v says.                 *)
Reads(mem, b, v) ==
    \A c \in Cols : Arg(mem, b[c]) = v[c] /\ (b[c] # 0 => v[c] # NULL)

(* The inductive invariant behind CollectedIsInserted.                     *)
BindingInv ==
    /\ BindingTypeOK /\ meant = rows
    /\ \A i \in DOMAIN collected : Reads(cells, collected[i].copy, rows[collected[i].row])

(* A collected binding keeps the value of every column of the row it was   *)
(* read from, as it was meant when it was inserted, whatever is read into  *)
(* the same variable later, through however many copies it went and where  *)
(* a later read stopped.                                                   *)
CollectedIsInserted ==
    \A i \in DOMAIN collected :
      LET b == collected[i].copy
          v == meant[collected[i].row]
      IN  /\ \A c \in Cols : Arg(cells, b[c]) = v[c]
          /\ IsBound(b) <=> v.bot_user_id # NULL /\ v.chat_thread_id # NULL
=============================================================================
