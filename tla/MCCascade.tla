----------------------------- MODULE MCCascade -----------------------------
(* Constants for model checking the programs around cfgcore.               *)
EXTENDS Cascade

Short == [stem |-> "key",  len |-> 1]
Other == [stem |-> "url",  len |-> 2]
Long  == [stem |-> "key",  len |-> 7]
Over  == [stem |-> "key",  len |-> 9]

Names == {Short, Other, Long, Over}

Text(n)  == [ref |-> NULL, len |-> n]
Ref(n)   == [ref |-> n, len |-> n.len + 3]

Item(n, type, text) == [name |-> n, type |-> type, text |-> text]

\* A bundle of this many entries and these items.
Of(n, items) == [ok |-> TRUE, count |-> n, items |-> items]

Plain == Item(Short, "str", <<Text(1)>>)

\* What is pushed: a template and what it refers to, with an item behind the last one
\* announced; another value of that name, an integer that is too long and ends the
\* payload; too many entries, the first a blob that is too long to be peeked at; and,
\* behind a good entry, a name that is too long.
Pushed ==
  {Of(2, <<Item(Long, "template", <<Ref(Short), Text(1)>>), Plain, Item(Other, "str", <<>>)>>),
   Of(1, <<Item(Short, "int", <<Text(2)>>)>>),
   Of(3, <<Item(Short, "blob", <<Text(9)>>)>>),
   Of(2, <<Plain, Item(Over, "str", <<>>)>>)}

\* What the tools read may also be cut off, or have a value that is too long.
Bundles == Pushed \cup {Of(2, <<Plain>>), Of(2, <<Plain, Item(Other, "str", <<Text(9)>>)>>)}

\* A GET of the short name may find the template, whose name begins with it.
EveryOp ==
  UNION {Request("get",  {Short}, {NULL}, {FALSE}),
         Request("push", {NULL}, Pushed, {FALSE}),
         Request("bad",  {Short}, {NULL}, {TRUE})}
=============================================================================
