----------------------------- MODULE SkillStore -----------------------------
(***************************************************************************)
(* Saved skills (orchestrator/skills.py, run_skill_tool of tools.py,       *)
(* api/skills.py). Agents' threads and REST handlers use one table, each   *)
(* operation on a connection of its own: a save is a SELECT and then an    *)
(* upsert, a load is a SELECT and then an UPDATE of the use count.         *)
(* Abstracted: texts and tags (the save that wrote them stands for them),  *)
(* the syntax of names, search and the catalog, which only read.           *)
(***************************************************************************)
EXTENDS Integers

CONSTANTS
    Names, Clients, \* the skills; the concurrent callers
    MaxSaves, MaxUses \* bounds

VARIABLES
    row,    \* table skills; created = 0 without a row
    clock,  \* time.time(), one tick per save
    stage,  \* how far a client's operation is
    target, at, created, \* its name, its time, the created_at it has read
    got     \* the skill load_skill handed out

calls == <<stage, target, at, created>>
store == <<row, clock, calls, got>>

NoRow == [description |-> 0, code |-> 0, created |-> 0, updated |-> 0, uses |-> 0]
Stored(n) == row[n].created > 0

StoreInit ==
    /\ row = [n \in Names |-> NoRow]
    /\ clock = 0
    /\ stage = [c \in Clients |-> "idle"]
    /\ target \in [Clients -> Names] /\ target = [c \in Clients |-> CHOOSE n \in Names : TRUE]
    /\ at = [c \in Clients |-> 0]
    /\ created = [c \in Clients |-> 0]
    /\ got = [c \in Clients |-> <<0, 0>>]

\* save: the time is taken before the connection is opened.
BeginSave(c, n) ==
    /\ stage[c] = "idle" /\ clock < MaxSaves
    /\ clock' = clock + 1
    /\ stage' = [stage EXCEPT ![c] = "saving"]
    /\ target' = [target EXCEPT ![c] = n]
    /\ at' = [at EXCEPT ![c] = clock + 1]
    /\ UNCHANGED <<row, created, got>>

SelectCreated(c) ==
    /\ stage[c] = "saving"
    /\ stage' = [stage EXCEPT ![c] = "upserting"]
    /\ created' = [created EXCEPT ![c] = IF Stored(target[c]) THEN row[target[c]].created ELSE at[c]]
    /\ UNCHANGED <<row, clock, target, at, got>>

NewRow(c) == [description |-> at[c], code |-> at[c], created |-> created[c], updated |-> at[c], uses |-> 0]

\* Faulty variant: INSERT OR REPLACE, with the created_at read before.
UpsertedByReplacing(c) == NewRow(c)

\* Faulty variant: the conflict clause forgets the description.
UpsertedCodeOnly(c) ==
    IF Stored(target[c]) THEN [row[target[c]] EXCEPT !.code = at[c], !.updated = at[c]] ELSE NewRow(c)

\* INSERT ... ON CONFLICT DO UPDATE.
Upserted(c) ==
    IF Stored(target[c])
    THEN [row[target[c]] EXCEPT !.description = at[c], !.code = at[c], !.updated = at[c]]
    ELSE NewRow(c)

Upsert(c) ==
    /\ stage[c] = "upserting"
    /\ row' = [row EXCEPT ![target[c]] = Upserted(c)]
    /\ stage' = [stage EXCEPT ![c] = "idle"]
    /\ UNCHANGED <<clock, target, at, created, got>>

\* load_skill: get, and then record_use by name.
Get(c, n) ==
    /\ stage[c] = "idle" /\ Stored(n) /\ row[n].uses < MaxUses
    /\ stage' = [stage EXCEPT ![c] = "recording"]
    /\ target' = [target EXCEPT ![c] = n]
    /\ got' = [got EXCEPT ![c] = <<row[n].description, row[n].code>>]
    /\ UNCHANGED <<row, clock, at, created>>

RecordUse(c) ==
    /\ stage[c] = "recording"
    /\ row' = IF Stored(target[c]) THEN [row EXCEPT ![target[c]].uses = @ + 1] ELSE row
    /\ stage' = [stage EXCEPT ![c] = "idle"]
    /\ UNCHANGED <<clock, target, at, created, got>>

Delete(n) ==
    /\ Stored(n)
    /\ row' = [row EXCEPT ![n] = NoRow]
    /\ UNCHANGED <<clock, calls, got>>

\* A statement raises (locked database), or the process dies with the call.
OperationFails(c) ==
    /\ stage[c] # "idle"
    /\ stage' = [stage EXCEPT ![c] = "idle"]
    /\ UNCHANGED <<row, clock, target, at, created, got>>

Continue(c) == SelectCreated(c) \/ Upsert(c) \/ RecordUse(c) \/ OperationFails(c)
-----------------------------------------------------------------------------
Row == [description : Nat, code : Nat, created : Nat, updated : Nat, uses : Nat]

StoreTypeOK ==
    /\ row \in [Names -> Row]
    /\ clock \in Nat
    /\ stage \in [Clients -> {"idle", "saving", "upserting", "recording"}]
    /\ target \in [Clients -> Names]
    /\ at \in [Clients -> Nat]
    /\ created \in [Clients -> Nat]
    /\ got \in [Clients -> Nat \X Nat]

\* While a skill lives, no save changes its created_at or loses a counted use,
\* whichever saves, loads and deletions came between the two statements.
UpsertKeepsHistory ==
    \A n \in Names : Stored(n) /\ row'[n].created > 0 =>
        row'[n].created = row[n].created /\ row'[n].uses >= row[n].uses

\* The description and the code of a skill, stored or loaded, are of one save.
SkillsAreWhole ==
    /\ \A n \in Names : row[n].description = row[n].code
    /\ \A c \in Clients : got[c][1] = got[c][2]
=============================================================================
