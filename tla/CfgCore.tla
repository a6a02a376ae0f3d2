------------------------------ MODULE CfgCore ------------------------------
(***************************************************************************)
(* cfgcore.dll: configuration bundles are parsed into profiles, lists of   *)
(* named entries to which entries are only ever appended and in which the  *)
(* first of a name is found.  Parsing and merging are loops, an entry a    *)
(* step; at most one profile is being built at a time.                     *)
(*                                                                         *)
(* The text of a value is a sequence of pieces: so many characters, or a   *)
(* reference ${NAME}.                                                      *)
(***************************************************************************)
EXTENDS Names, Sequences

CONSTANTS Bundle,        \* what payloads and files can hold
          CopyLimit,     \* 64, the length from which normalize_key copies nothing
          MaxEntries,    \* CPROF_MAX_ENTRIES
          MaxName,       \* CPROF_MAX_NAME
          MaxValue,      \* CPROF_MAX_VALUE
          FieldSize,     \* 16, the field decode_field copies into
          ResolvedSize,  \* 512, the buffer a template is expanded in
          LineSize,      \* 128, the buffer it is copied to from there
          Room           \* bound: the entries there is memory for in the store

VARIABLES
  store,  \* g_store: its entries
  prof,   \* p: the entries of the profile in hand, NULL if there is none
  rest,   \* the entries still to be parsed, or to be merged
  due,    \* h->entry_count - i: the entries announced and not yet parsed
  fault   \* the overrun or null pointer that ended the process

cfgVars == <<store, prof, rest, due, fault>>

Type  == {"str", "wstr", "blob", "int", "template"}
Piece == [ref: Name \cup {NULL}, len: Nat]

\* Copies made by CfgMerge lack a name or a value there was no memory for.
Entry == [name: Name \cup {NULL}, type: Type, text: Seq(Piece) \cup {NULL}]

\* What a name is found to stand for.
Value == [type: Type, text: Seq(Piece) \cup {NULL}]

\* A bundle may announce more entries than it holds; ok says whether it has a header
\* with the right magic and version.
ASSUME CfgAssumption ==
  /\ \A b \in Bundle :
       /\ b \in [ok: BOOLEAN, count: Nat, items: Seq(Entry)]
       /\ \A i \in 1 .. Len(b.items) : b.items[i].name # NULL /\ b.items[i].text # NULL
  /\ {CopyLimit, MaxEntries, MaxName, MaxValue, FieldSize, LineSize, Room} \subseteq Nat
  /\ ResolvedSize \in Nat \ {0}
  /\ NULL \notin Seq(Piece) \cup Seq(Entry) \cup Value

Crash(what) == fault' = what /\ UNCHANGED <<store, prof, rest, due>>

CfgInit ==
  /\ store = <<>>
  /\ prof = NULL
  /\ rest = <<>>
  /\ due = 0
  /\ fault = "none"

\* How many characters a text has.
Length(text) ==
  LET upto[i \in 0 .. Len(text)] == IF i = 0 THEN 0 ELSE upto[i - 1] + text[i].len
  IN upto[Len(text)]

-----------------------------------------------------------------------------
(* Parsing (CfgParseBlob).                                                 *)

CfgFree == prof' = NULL /\ rest' = <<>> /\ due' = 0

\* Variant: what was parsed so far counts as the profile.
KeepParsed == rest' = <<>> /\ due' = 0 /\ UNCHANGED prof

\* An entry is cut off or over a limit, or there is no memory for it.
ParseFails == CfgFree

\* The header is wrong or announces too many, or there is no memory.
NotParsed == UNCHANGED cfgVars

ParseHeader(b) ==
  /\ b.ok
  /\ b.count <= MaxEntries
  /\ prof' = <<>>
  /\ rest' = b.items
  /\ due' = b.count
  /\ UNCHANGED <<store, fault>>

WithinLimits(e) == e.name.len <= MaxName /\ Length(e.text) <= MaxValue

\* An integer is decoded and its text not kept.
Kept(e) == IF e.type = "int" THEN [e EXCEPT !.text = NULL] ELSE e

\* decode_field copies the digits of an integer and the byte behind them.  Too many
\* write a byte behind the field, into padding or more than that; and where the payload
\* ends with the digits, the byte behind them is not part of its block.
DigitsFault(e) ==
  /\ e.type = "int"
  /\ \/ Length(e.text) >= FieldSize /\ Crash("field")
     \/ Length(e.text) <= FieldSize /\ Len(rest) = 1 /\ Crash("payload")

ParseEntry ==
  /\ due > 0
  /\ \/ ParseFails /\ UNCHANGED <<store, fault>>
     \/ /\ rest # <<>>
        /\ WithinLimits(Head(rest))
        /\ \/ /\ prof' = Append(prof, Kept(Head(rest)))
              /\ rest' = Tail(rest)
              /\ due' = due - 1
              /\ UNCHANGED <<store, fault>>
           \/ DigitsFault(Head(rest))

Parsed == due = 0

\* CfgAdd, used by the providers: all of the entry or nothing.
CfgAdd(e) == prof' = Append(prof, e) \/ UNCHANGED prof

-----------------------------------------------------------------------------
(* Looking up and expanding.                                               *)

\* A walk for name n ends at the first entry of the name or without a name, which
\* strcmp and strlen do not survive.
Stops(p, n) == {i \in 1 .. Len(p) : p[i].name \in {n, NULL}}

First(places) == CHOOSE i \in places : \A j \in places : i <= j

Breaks(p, n) == Stops(p, n) # {} /\ p[First(Stops(p, n))].name = NULL

Found(p, n) == Stops(p, n) # {} /\ ~Breaks(p, n)

Entered(p, n) == p[First(Stops(p, n))]

\* What a piece contributes: a reference the text of the entry it names, as it is.
Expansion(p, piece) ==
  IF piece.ref = NULL THEN piece.len
  ELSE IF Found(p, piece.ref) /\ Entered(p, piece.ref).text # NULL
  THEN Length(Entered(p, piece.ref).text) ELSE 0

\* How many characters there are in resolved[] after each of these parts.
Filled(part) ==
  LET w[i \in 0 .. Len(part)] ==
        IF i = 0 THEN 0 ELSE Lesser(ResolvedSize - 1, w[i - 1] + part[i])
  IN w

Written(p, text) == Filled([i \in 1 .. Len(text) |-> Expansion(p, text[i])])

\* The references that are looked up, those before the buffer is full.
LookedUp(p, text) ==
  {text[i].ref : i \in {j \in 1 .. Len(text) :
                          text[j].ref # NULL /\ Written(p, text)[j - 1] < ResolvedSize - 1}}

ExpandFault(p, e) ==
  IF e.text = NULL THEN "none"
  ELSE IF \E n \in LookedUp(p, e.text) : Breaks(p, n) THEN "name"
  ELSE IF Written(p, e.text)[Len(e.text)] >= LineSize THEN "line"
  ELSE "none"

CfgExpandTemplate(p, e) ==
  IF ExpandFault(p, e) = "none" THEN UNCHANGED cfgVars ELSE Crash(ExpandFault(p, e))

-----------------------------------------------------------------------------
(* Merging (CfgMerge).                                                     *)

\* Variant: the new entry goes to the front.
append_front(e) == store' = <<e>> \o store

append_entry(e) == store' = Append(store, e)

\* The copy of an entry may lack its name or its value.
Copies(e) == {[name |-> n, type |-> e.type, text |-> x] : n \in {e.name, NULL}, x \in {e.text, NULL}}

\* Without memory for an entry the rest is dropped.
MergeEntry ==
  /\ rest # <<>>
  /\ \/ rest' = <<>> /\ UNCHANGED store
     \/ /\ Len(store) < Room
        /\ \E e \in Copies(Head(rest)) : append_entry(e)
        /\ rest' = Tail(rest)
  /\ UNCHANGED <<prof, due, fault>>
=============================================================================
