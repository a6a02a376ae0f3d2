----------------------------- MODULE MCSessiond -----------------------------
(* Constants for model checking sessiond.                                  *)
EXTENDS Sessiond

CONSTANTS p1, p2, b1, b2, echo

\* One way or two to send each operation.  SET and APPEND through RECENT take every
\* way through their handlers: the pipe's own pointer, and on TCP the store's.
EveryOp ==
  UNION {Request("open",   {echo}, {0}, {1}, {FALSE}),
         Request("run",    {NULL}, {0, SESS_RECENT}, {0}, {TRUE}),
         Request("set",    {NULL}, {SESS_RECENT}, {1}, {TRUE}),
         Request("append", {NULL}, {SESS_RECENT}, {1}, {FALSE}),
         Request("close",  {NULL}, {0}, {0}, {FALSE}),
         Request("stat",   {NULL}, {0}, {0}, {TRUE}),
         Request("flush",  {NULL}, {0}, {1}, {FALSE}),
         Request("bad",    {NULL}, {0}, {1, MaxArg + 1}, {FALSE})}

\* APPEND through RECENT, by clients of both kinds.
Appending ==
  UNION {Request("open",   {echo}, {0}, {1}, {FALSE}),
         Request("append", {NULL}, {SESS_RECENT}, {1}, {FALSE})}
=============================================================================
