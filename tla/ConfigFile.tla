------------------------------ MODULE ConfigFile -------------------------------
(* The configuration file and its two editors in the dashboard: the page of common settings,     *)
(* which patches single values (config/product.go), and the page of the whole text, in which the *)
(* secrets are placeholders that are put back by their number on saving (config/file.go).        *)
(*                                                                                               *)
(* A text is a sequence of lines: the header of a table, of an array of tables, or a key with a  *)
(* value. All of the process's saves are serialised by managedConfigFileMu; a text is replaced   *)
(* by a rename, or in place where the file is a mount of its own. Editors may hold an old page.  *)
EXTENDS Naturals, Sequences, FiniteSets, SequencesExt

CONSTANTS
  Editors,  \* the pages open in browsers
  Originals, \* the texts the file may have at first
  MaxEdits, \* bound: the edits of a page
  MaxSaves, \* bound: the saves
  NoPage

(* ---- texts ---- *)
Root == ""
Tables == {"log", "telegram"}
Keys == {"token", "lang", "level", "app_id"}        \* "token" is a sensitive key
Table(name) == [kind |-> "table", name |-> name]
ArrayTable == [kind |-> "array"]
KeyValue(key, value) == [kind |-> "key", key |-> key, value |-> value]
Placeholder(n) == [redacted |-> n]
IsKey(line) == line.kind = "key"
IsSensitive(line) == IsKey(line) /\ line.key = "token"
IsPlaceholder(line) == IsSensitive(line) /\ "redacted" \in DOMAIN line.value

\* The header a line is under; the array of tables is a section that holds no managed key.
Headers(text, i) == {j \in 1..i : ~IsKey(text[j])}
SectionOf(text, i) ==
  IF Headers(text, i) = {} THEN Root
  ELSE LET h == text[Max(Headers(text, i))] IN IF h.kind = "table" THEN h.name ELSE "array"
PathOf(text, i) == <<SectionOf(text, i), text[i].key>>

KeysAt(text, path) == {i \in DOMAIN text : IsKey(text[i]) /\ PathOf(text, i) = path}
TableAt(text, name) == {i \in DOMAIN text : text[i] = Table(name)}

SecretValues == [text : STRING] \union [redacted : Nat]
Lines ==
  {Table(name) : name \in Tables} \union {ArrayTable}
    \union [kind : {"key"}, key : {"token"}, value : SecretValues]
    \union [kind : {"key"}, key : Keys \ {"token"}, value : STRING]

\* ValidateTOML: what is no TOML is refused, and so is a table or a key that is defined twice.
Valid(text) ==
  /\ text \in Seq(Lines)
  /\ \A t \in Tables : Cardinality(TableAt(text, t)) <= 1
  /\ \A s \in Tables \union {Root, "array"} : \A k \in Keys : Cardinality(KeysAt(text, <<s, k>>)) <= 1
  /\ Cardinality({i \in DOMAIN text : text[i] = ArrayTable}) <= 1

(* ---- redactTOML and prepareTOML ---- *)
NumberOf(text, i) == Cardinality({j \in 1..i : IsSensitive(text[j])})
Redact(text) ==
  [i \in DOMAIN text |-> IF IsSensitive(text[i]) THEN [text[i] EXCEPT !.value = Placeholder(NumberOf(text, i))]
                         ELSE text[i]]

Secrets(text) == {i \in DOMAIN text : IsSensitive(text[i])}
SecretOf(text, n) == text[CHOOSE i \in Secrets(text) : NumberOf(text, i) = n].value

Known(original, submitted) ==
  \A i \in DOMAIN submitted : IsPlaceholder(submitted[i]) => submitted[i].value.redacted \in 1..Cardinality(Secrets(original))
PutBackInOrder(original, submitted) ==
  [i \in DOMAIN submitted |->
     IF IsPlaceholder(submitted[i])
       THEN [submitted[i] EXCEPT !.value = SecretOf(original, NumberOf(submitted, i))] ELSE submitted[i]]

PutBack(original, submitted) ==
  [i \in DOMAIN submitted |->
     IF IsPlaceholder(submitted[i])
       THEN [submitted[i] EXCEPT !.value = SecretOf(original, submitted[i].value.redacted)] ELSE submitted[i]]

(* ---- patchProductTOML: a value is replaced where it is, a missing key goes to the end of its  *)
(* table, and a missing table with its keys to the end of the text. Insertions at one place keep *)
(* the order in which the updates first name their tables.                                       *)
Setting(section, key, value) == [path |-> <<section, key>>, value |-> value]
NewToken == [text |-> "new"]

\* SaveProductConfig: all the plain values, then the secrets that were filled in; DisableUserbot.
Form(secrets) ==
  <<Setting(Root, "lang", "new"), Setting("log", "level", "new"), Setting("telegram", "app_id", "new")>> \o secrets
Updates ==
  {Form(<<>>), Form(<<Setting("telegram", "token", NewToken)>>), <<Setting("log", "level", "off")>>}

Paths(updates) == {updates[k].path : k \in DOMAIN updates}
ValueOf(updates, path) == updates[CHOOSE k \in DOMAIN updates : updates[k].path = path].value

Section(updates, k) == updates[k].path[1]
Missing(text, updates) == {k \in DOMAIN updates : KeysAt(text, updates[k].path) = {}}
Turn(text, updates, k) == Min({l \in Missing(text, updates) : Section(updates, l) = Section(updates, k)})

Present(text, section) == section = Root \/ TableAt(text, section) # {}
EndOfText(text, section) == Len(text)

TableEnd(text, section) ==
  LET start == IF section = Root THEN 0 ELSE CHOOSE i \in TableAt(text, section) : TRUE
      next  == {j \in DOMAIN text : j > start /\ ~IsKey(text[j])}
  IN IF next = {} THEN Len(text) ELSE Min(next) - 1
InsertionPoint(text, section) == IF Present(text, section) THEN TableEnd(text, section) ELSE Len(text)

Replaced(text, updates, i) ==
  IF IsKey(text[i]) /\ PathOf(text, i) \in Paths(updates)
    THEN [text[i] EXCEPT !.value = ValueOf(updates, PathOf(text, i))] ELSE text[i]

\* Where a line of the patched text is: the line of the text that it is or comes after, the turn of
\* its table among those with missing keys, and its key among the updates (0 for the new header).
KeySpot(text, updates, k) == <<InsertionPoint(text, Section(updates, k)), Turn(text, updates, k), k>>
TableSpot(text, updates, k) == <<Len(text), Turn(text, updates, k), 0>>
Spots(text, updates) ==
  {<<i, 0, 0>> : i \in DOMAIN text} \union {KeySpot(text, updates, k) : k \in Missing(text, updates)}
    \union {TableSpot(text, updates, k) : k \in {k \in Missing(text, updates) : ~Present(text, Section(updates, k))}}
Before(p, q) == p[1] < q[1] \/ (p[1] = q[1] /\ (p[2] < q[2] \/ (p[2] = q[2] /\ p[3] < q[3])))
LineAt(text, updates, p) ==
  IF p[2] = 0 THEN Replaced(text, updates, p[1])
  ELSE IF p[3] = 0 THEN Table(Section(updates, p[2]))
  ELSE KeyValue(updates[p[3]].path[2], updates[p[3]].value)

Rank(spots, p) == Cardinality({q \in spots : Before(q, p)}) + 1
Patch(text, updates) ==
  LET spots == Spots(text, updates)
  IN [n \in 1..Cardinality(spots) |-> LineAt(text, updates, CHOOSE p \in spots : Rank(spots, p) = n)]

(* ---- the file ---- *)
VARIABLES
  disk,     \* the text, or Torn while and after it is overwritten in part
  mounted,  \* the file is a bind mount: rename fails with EBUSY
  page,     \* per editor, the text it edits, what is behind it, and the file it was read from
  writing,  \* the save under way in place: the new and the old text, or NoPage
  saves,
  mixed     \* how a save came to write a text that the editor did not mean
fileVars == <<disk, mounted, page, writing, saves, mixed>>

Torn == <<[kind |-> "torn"]>>

ConfigInit ==
  /\ disk \in {t \in Originals : Valid(t)}
  /\ mounted \in BOOLEAN
  /\ page = [e \in Editors |-> NoPage] /\ writing = NoPage /\ saves = 0 /\ mixed = {}

Idle == writing = NoPage /\ disk # Torn

Read(e) ==
  /\ Idle /\ page[e] = NoPage
  /\ page' = [page EXCEPT ![e] = [text |-> Redact(disk), meant |-> disk, stale |-> FALSE, edits |-> 0]]
  /\ UNCHANGED <<disk, mounted, writing, saves, mixed>>

\* The editor removes a line, or exchanges two that follow each other.
Exchanged(s, i) == [s EXCEPT ![i] = s[i + 1], ![i + 1] = s[i]]

Edit(e) ==
  LET p == page[e]
      Becomes(text, meant) ==
        page' = [page EXCEPT ![e] = [text |-> text, meant |-> meant, stale |-> p.stale, edits |-> p.edits + 1]]
  IN /\ p # NoPage /\ p.edits < MaxEdits
     /\ \E i \in DOMAIN p.text :
          \/ Becomes(RemoveAt(p.text, i), RemoveAt(p.meant, i))
          \/ i < Len(p.text) /\ Becomes(Exchanged(p.text, i), Exchanged(p.meant, i))
     /\ UNCHANGED <<disk, mounted, writing, saves, mixed>>

\* replaceConfigFile: the temporary file is complete before the rename.
ReplaceWith(text) ==
  IF mounted THEN writing' = [new |-> text, old |-> disk] /\ UNCHANGED disk
             ELSE disk' = text /\ UNCHANGED writing

OthersStale == [e \in Editors |-> IF page[e] = NoPage THEN NoPage ELSE [page[e] EXCEPT !.stale = TRUE]]

SaveText(e) ==
  /\ Idle /\ page[e] # NoPage /\ saves < MaxSaves
  /\ Known(disk, page[e].text)
  /\ LET text == PutBack(disk, page[e].text) IN
       /\ Valid(text) /\ ReplaceWith(text)
       /\ mixed' = IF text = page[e].meant THEN mixed
                   ELSE mixed \union {IF page[e].stale THEN "changed file" ELSE "same file"}
  /\ page' = [OthersStale EXCEPT ![e] = NoPage] /\ saves' = saves + 1
  /\ UNCHANGED mounted

SaveRejected(e) ==
  /\ Idle /\ page[e] # NoPage
  /\ ~Known(disk, page[e].text) \/ ~Valid(PutBack(disk, page[e].text))
  /\ page' = [page EXCEPT ![e] = NoPage]
  /\ UNCHANGED <<disk, mounted, writing, saves, mixed>>

SaveValues(updates) ==
  /\ Idle /\ saves < MaxSaves /\ saves' = saves + 1
  /\ LET patched == Patch(disk, updates) IN Valid(patched) /\ ReplaceWith(patched)
  /\ page' = OthersStale
  /\ UNCHANGED <<mounted, mixed>>

(* ---- overwriteConfigFile ---- *)
Truncate ==
  /\ writing # NoPage /\ disk # Torn /\ disk' = Torn
  /\ UNCHANGED <<mounted, page, writing, saves, mixed>>

Overwritten ==
  /\ writing # NoPage /\ disk = Torn
  /\ disk' = writing.new /\ writing' = NoPage
  /\ UNCHANGED <<mounted, page, saves, mixed>>

\* The write fails: the old text is written instead, and that may fail too.
OverwriteFails ==
  /\ writing # NoPage
  /\ disk' \in {writing.old, Torn} /\ writing' = NoPage
  /\ UNCHANGED <<mounted, page, saves, mixed>>

\* The process ends and is started again, which every save asks for; pages stay open.
Crash ==
  /\ writing # NoPage /\ writing' = NoPage
  /\ UNCHANGED <<disk, mounted, page, saves, mixed>>

ConfigNext ==
  \/ \E e \in Editors : Read(e) \/ Edit(e) \/ SaveText(e) \/ SaveRejected(e)
  \/ \E u \in Updates : SaveValues(u)
  \/ Truncate \/ Overwritten \/ OverwriteFails \/ Crash

ConfigSpec == ConfigInit /\ [][ConfigNext]_fileVars

-----------------------------------------------------------------------------
(* Saving a page puts every secret back where its editor left it, however the lines were moved   *)
(* or removed, as long as the file is the one the page was read from; only a save in between     *)
(* renumbers the secrets under the placeholders (file.go:174-207).                               *)
SecretsStay == mixed \subseteq {"changed file"}

(* Saving the common settings keeps every line the form does not manage, with its value and      *)
(* under its header, and gives every managed key its value in its own table, unless a new table  *)
(* is put at the end of the text before a key that belongs to the table at the end.              *)
PathsIn(text) == {PathOf(text, i) : i \in {j \in DOMAIN text : IsKey(text[j])}}
ValueAt(text, path) == {text[i].value : i \in KeysAt(text, path)}
Crowded(text, updates) ==
  \E k, l \in Missing(text, updates) :
    /\ Turn(text, updates, k) < Turn(text, updates, l)
    /\ ~Present(text, Section(updates, k)) /\ Present(text, Section(updates, l))
    /\ TableEnd(text, Section(updates, l)) = Len(text)

KeepsOthers(text, patched, updates) ==
  \A p \in PathsIn(text) \ Paths(updates) : ValueAt(patched, p) = ValueAt(text, p)
SetsItsOwn(patched, updates) ==
  \A p \in Paths(updates) : ValueAt(patched, p) = {ValueOf(updates, p)}

Written == IF mounted THEN writing'.new ELSE disk'
PatchKeepsRest ==
  [][\A u \in Updates : SaveValues(u) =>
       KeepsOthers(disk, Written, u) /\ (Crowded(disk, u) \/ SetsItsOwn(Written, u))]_fileVars

(* The file is the old text or the new one after any failure or crash, and torn only where it    *)
(* cannot be replaced by a rename (file.go:287-342).                                             *)
TornOnlyMounted == disk = Torn => mounted

(* What becomes of the file, whoever saves it and wherever saving stops.                         *)
ConfigInv == SecretsStay /\ TornOnlyMounted
=============================================================================
