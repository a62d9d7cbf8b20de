----------------------------- MODULE StoredRows -----------------------------
(***************************************************************************)
(* A memory's row: what it is made of, edited, aged and read back, two     *)
(* users' rows beside each other; the document, the words and the vector   *)
(* it is found by; and the listings it is exported and audited in.         *)
(*                                                                         *)
(* A string is [word, how]: the word, and whether it is written plainly,   *)
(* in capitals or with blanks around it; "" is blank and "long" over any   *)
(* limit.  0 is an absent time or id.                                      *)
(***************************************************************************)
EXTENDS Integers, Sequences, FiniteSets
LOCAL INSTANCE SequencesExt
LOCAL INSTANCE FiniteSetsExt

CONSTANTS
  Known,      \* names of the categories that are built in
  Extra,      \* names of extra_categories
  MaxTagCount,
  MaxOps      \* bound: operations in a row

Strings(words) == [word : words, how : {"plain", "capitals", "blanks"}]
Refused == [refused |-> TRUE]

-----------------------------------------------------------------------------
(* Memory::create, edit.                                                   *)

\* Category::parse_with_extras; Category::from_stored, which knows no extras.
Parse(raw) == IF raw.word \in Known THEN [kind |-> "builtin", name |-> raw.word]
              ELSE IF raw.word \in Extra THEN [kind |-> "custom", name |-> raw.word]
              ELSE Refused
FromStored(name) == [kind |-> IF name \in Known THEN "builtin" ELSE "custom", name |-> name]

\* normalize_tags: each once, without the blank ones.
NormalizeTags(tags) ==
  LET words == SelectSeq([i \in DOMAIN tags |-> tags[i].word], LAMBDA w : w # "")
      once == FoldLeft(LAMBDA kept, w : IF w \in Range(kept) THEN kept ELSE Append(kept, w), <<>>, words)
  IN IF "long" \in Range(words) \/ Len(once) > MaxTagCount THEN <<"refused">> ELSE once

\* normalize_subcategory and the limits on content.
NormalizeSub(sub) == IF sub.word = "long" THEN "refused" ELSE sub.word
ContentFits(content) == content.word \notin {"", "long"}

\* SaveMemoryRequest::into_new_memory.
IntoNewMemory(request) ==
  [request EXCEPT !.category = IF @.word = "absent" THEN [word |-> "fact.project", how |-> "plain"] ELSE @]

\* Memory::create; a field nobody gives has its default.
Create(owner, new, now) ==
  IF \/ ~ ContentFits(new.content) \/ NormalizeTags(new.tags) = <<"refused">>
     \/ NormalizeSub(new.sub) = "refused" \/ Parse(new.category) = Refused
     \/ (new.expires # 0 /\ new.expires <= now)
  THEN Refused
  ELSE [owner |-> owner, content |-> new.content.word, category |-> Parse(new.category),
        sub |-> NormalizeSub(new.sub), tags |-> NormalizeTags(new.tags),
        made |-> now, updated |-> now, accessed |-> 0, count |-> 0, weight |-> 100,
        expires |-> new.expires, superseded |-> 0, gone |-> 0]

\* Memory::edit: what is given, and the time.
Edit(row, change, now) ==
  IF ~ ContentFits(change.content) \/ NormalizeTags(change.tags) = <<"refused">>
  THEN Refused
  ELSE [row EXCEPT !.content = change.content.word, !.tags = NormalizeTags(change.tags),
                   !.updated = now]

-----------------------------------------------------------------------------
(* SqliteMemoryRepository.  A store is [rows, entries, now, drafts]; an id *)
(* is a row's place; drafts are edits that were read and not yet written.  *)

AnyRow(store, u, m) == m \in DOMAIN store.rows /\ store.rows[m].owner = u
OwnRow(store, u, m) == AnyRow(store, u, m) /\ store.rows[m].gone = 0

Entered(store, u, m, op) ==
  [store EXCEPT !.entries = Append(@, [user |-> u, memory |-> m, op |-> op, at |-> store.now]),
                !.now = @ + 1]

Inserted(store, u, new) ==
  LET row == Create(u, new, store.now)
  IN IF row = Refused THEN store
     ELSE Entered([store EXCEPT !.rows = Append(@, row)], u, Len(store.rows) + 1, "add")

ReadDraft(store, u, m, change) ==
  LET row == Edit(store.rows[m], change, store.now)
  IN IF ~ OwnRow(store, u, m) THEN store
     ELSE IF row = Refused THEN store
     ELSE [store EXCEPT !.drafts = {[user |-> u, memory |-> m, row |-> row]}, !.now = @ + 1]

\* Mutant of WriteDraft: the row is written as a whole, as it was read.
WriteDraftWhole(store, d) ==
  IF ~ OwnRow(store, d.user, d.memory) THEN [store EXCEPT !.drafts = {}]
  ELSE Entered([store EXCEPT !.drafts = {}, !.rows[d.memory] = d.row], d.user, d.memory,
               IF d.row.superseded # 0 THEN "supersede" ELSE "update")

\* update: the columns an edit may change, and superseded_by as it was read;
\* how often and when it was recalled, and its weight, are not among them.
WriteDraft(store, d) ==
  IF ~ OwnRow(store, d.user, d.memory) THEN [store EXCEPT !.drafts = {}]
  ELSE Entered([store EXCEPT !.drafts = {},
                             !.rows[d.memory].content = d.row.content,
                             !.rows[d.memory].tags = d.row.tags,
                             !.rows[d.memory].updated = d.row.updated,
                             !.rows[d.memory].superseded = d.row.superseded], d.user, d.memory,
               IF d.row.superseded # 0 THEN "supersede" ELSE "update")

\* delete, once more if it is asked for, which keeps the time of the first;
\* supersede.
Deleted(store, u, m) ==
  IF ~ AnyRow(store, u, m) THEN store
  ELSE Entered([store EXCEPT !.rows[m].gone = IF @ = 0 THEN store.now ELSE @], u, m, "delete")
SupersededBy(store, u, m, n) ==
  IF ~ OwnRow(store, u, m) THEN store
  ELSE Entered([store EXCEPT !.rows[m].superseded = n, !.rows[m].updated = store.now],
               u, m, "supersede")

\* merge: in one transaction, those that are still there and current.
MergedInto(store, u, ms, n) ==
  LET members == SelectSeq(ms, LAMBDA m : OwnRow(store, u, m) /\ store.rows[m].superseded = 0)
      One(s, m) == Entered([s EXCEPT !.rows[m].superseded = n, !.rows[m].updated = s.now],
                           u, m, "merge")
  IN FoldLeft(One, store, members)

\* touch_accessed, counted in the statement itself, and also of a row that is
\* deleted; set_importance.
Accessed(store, u, m) ==
  IF AnyRow(store, u, m)
  THEN [store EXCEPT !.rows[m].count = @ + 1, !.rows[m].accessed = store.now, !.now = @ + 1]
  ELSE store
Rescored(store, u, m, weight) ==
  IF OwnRow(store, u, m) THEN [store EXCEPT !.rows[m].weight = weight] ELSE store

\* list, the newest first; audit_trail, the newest first.
Listed(store, u, all) ==
  LET own == SetToSortSeq({m \in DOMAIN store.rows : OwnRow(store, u, m)}, LAMBDA x, y : x > y)
  IN SelectSeq(own, LAMBDA m : all \/ store.rows[m].superseded = 0)
AuditTrail(store, u, limit) ==
  LET own == SelectSeq(Reverse(store.entries), LAMBDA x : x.user = u)
  IN SubSeq(own, 1, Min({limit, Len(own)}))

\* row_to_memory, build_memory: the row as a memory.
Rebuilt(row) == [row EXCEPT !.category = FromStored(row.category.name)]

\* MemoryResponse::from: what a caller is told of a row.
Response(row) == [content |-> row.content, category |-> row.category.name, sub |-> row.sub,
                  tags |-> row.tags, created |-> row.made, changed |-> row.updated,
                  expires |-> row.expires, supersededBy |-> row.superseded]

\* MemoryExporter: a heading per category, in a fixed order, and a line per
\* memory, which says when it is superseded; or a list.
ExportMarkdown(store, u, all) ==
  LET names == SetToSeq({store.rows[m].category.name : m \in Range(Listed(store, u, all))})
      Lines(name) == SelectSeq(Listed(store, u, all), LAMBDA m : store.rows[m].category.name = name)
  IN FlattenSeq([i \in DOMAIN names |->
       [j \in DOMAIN Lines(names[i]) |->
          [memory |-> Lines(names[i])[j], under |-> names[i],
           superseded |-> store.rows[Lines(names[i])[j]].superseded # 0]]])
ExportJson(store, u, all) == Listed(store, u, all)
-----------------------------------------------------------------------------
(* What operations lead to, from a row of each of two users.               *)

Plainly(w) == [word |-> w, how |-> "plain"]
NewOf(words) == [content |-> Plainly(words[1]), category |-> Plainly(words[2]), sub |-> Plainly(""),
                 tags |-> <<>>, expires |-> 0]
FirstStore ==
  LET empty == [rows |-> <<>>, entries |-> <<>>, now |-> 1, drafts |-> {}]
  IN Inserted(Inserted(empty, 1, NewOf(<<"pnpm", "decision">>)), 2, NewOf(<<"pnpm", "custom">>))
Changed1 == [content |-> Plainly("yarn"), tags |-> <<[word |-> "ci", how |-> "capitals"], Plainly("ci")>>]

Ops == [do : {"insert", "write"}, user : 1..2, memory : {0}]
       \cup [do : {"read", "delete", "supersede", "merge", "touch", "rescore"}, user : 1..2, memory : 1..2]
Done(store, op) ==
  LET u == op.user
      m == op.memory
  IN CASE op.do = "insert"    -> Inserted(store, u, NewOf(<<"yarn", "decision">>))
       [] op.do = "write"     -> IF {d \in store.drafts : d.user = u} = {} THEN store
                                 ELSE WriteDraft(store, CHOOSE d \in store.drafts : d.user = u)
       [] op.do = "read"      -> ReadDraft(store, u, m, Changed1)
       [] op.do = "delete"    -> Deleted(store, u, m)
       [] op.do = "supersede" -> SupersededBy(store, u, m, 2)
       [] op.do = "merge"     -> MergedInto(store, u, <<1, 2>>, 3)
       [] op.do = "touch"     -> Accessed(store, u, m)
       [] op.do = "rescore"   -> Rescored(store, u, m, 40)
StoresAfterOps ==
  LET f[n \in 0..MaxOps] ==
        IF n = 0 THEN {FirstStore}
        ELSE LET before == f[n - 1] IN before \cup {Done(s, op) : s \in before, op \in Ops}
  IN f[MaxOps]

\* An operation of one user leaves the other's rows, lists and trail alone.
OthersAreLeft(store, op, after) ==
  LET o == 3 - op.user IN
  /\ Listed(after, o, TRUE) = Listed(store, o, TRUE)
  /\ \A m \in Range(Listed(store, o, TRUE)) : after.rows[m] = store.rows[m]
  /\ AuditTrail(after, o, 99) = AuditTrail(store, o, 99)

\* Being recalled or scored again is no change of a memory, and an edit that
\* was read before it takes nothing of it back.
BookkeepingIsApart(store, op, after) ==
  \A m \in DOMAIN store.rows :
    IF op.do \in {"touch", "rescore"}
    THEN /\ Response(after.rows[m]) = Response(store.rows[m])
         /\ after.entries = store.entries
    ELSE <<after.rows[m].count, after.rows[m].accessed, after.rows[m].weight>>
           = <<store.rows[m].count, store.rows[m].accessed, store.rows[m].weight>>

\* A row that is not the same memory as before has one entry for it, of the
\* user who changed it, and nothing else has one but a deletion asked for
\* again, which leaves the row as it is and the first deletion its time.
ChangesAreEntered(store, op, after) ==
  LET fresh == SubSeq(after.entries, Len(store.entries) + 1, Len(after.entries))
      New(m) == \/ m \notin DOMAIN store.rows
                \/ store.rows[m].updated # after.rows[m].updated
                \/ store.rows[m].gone # after.rows[m].gone
      again == {m \in DOMAIN store.rows :
                  store.rows[m].gone # 0 /\ op.do = "delete" /\ op.memory = m /\ AnyRow(store, op.user, m)}
  IN /\ {x.memory : x \in Range(fresh)} = {m \in DOMAIN after.rows : New(m)} \cup again
     /\ \A m \in DOMAIN store.rows :
          store.rows[m].gone # 0 => after.rows[m] \in {store.rows[m], Accessed(store, op.user, m).rows[m]}
     /\ IsInjective([i \in DOMAIN fresh |-> fresh[i].memory])
     /\ \A x \in Range(fresh) : x.user = op.user
     /\ \A i \in 1..Len(AuditTrail(after, op.user, 99)) - 1 :
          AuditTrail(after, op.user, 99)[i].at > AuditTrail(after, op.user, 99)[i + 1].at

\* What is listed is exported, whole and once, and reads as it was written.
ExportsAreWhole(store) ==
  \A u \in 1..2, all \in BOOLEAN :
    LET lines == ExportMarkdown(store, u, all) IN
    /\ Len(lines) = Len(Listed(store, u, all))
    /\ {x.memory : x \in Range(lines)} = Range(ExportJson(store, u, all))
    /\ \A x \in Range(lines) : ~ all => ~ x.superseded
    /\ \A m \in Range(Listed(store, u, TRUE)) : Rebuilt(store.rows[m]) = store.rows[m]

\* Whatever is given, what is kept is within the limits and normal: making it
\* again of what is kept changes nothing.
CreatedIsNormal ==
  \A content \in Strings({"", "long", "pnpm"}), name \in Strings(Known \cup Extra \cup {"odd", "absent"}),
     sub \in Strings({"", "long", "lab"}), expires \in {0, 1, 9},
     tags \in UNION {[1..n -> {Plainly(""), Plainly("ci"), [word |-> "ci", how |-> "capitals"],
                               Plainly("long"), Plainly("web")}] : n \in 0..2} :
    LET row == Create(1, IntoNewMemory([content |-> content, category |-> name, sub |-> sub,
                                        tags |-> tags, expires |-> expires]), 2)
    IN row # Refused =>
         /\ Cardinality(Range(row.tags)) = Len(row.tags) /\ Len(row.tags) <= MaxTagCount
         /\ NormalizeTags([i \in DOMAIN row.tags |-> Plainly(row.tags[i])]) = row.tags
         /\ Rebuilt(row) = row /\ (row.expires = 0 \/ row.expires > 2)

RowsAreSound ==
  /\ CreatedIsNormal
  /\ \A s \in StoresAfterOps :
       /\ ExportsAreWhole(s)
       /\ \A op \in Ops :
            LET after == Done(s, op) IN
            OthersAreLeft(s, op, after) /\ BookkeepingIsApart(s, op, after)
              /\ ChangesAreEntered(s, op, after)
=============================================================================
