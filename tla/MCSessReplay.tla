---------------------------- MODULE MCSessReplay ----------------------------
(* Constants for model checking sessreplay.                                *)
EXTENDS SessReplay

CONSTANTS p1, p2, p3, b1, b2, echo

Record(op, types, handles, lens, flags) ==
  [op: {op}, type: types, handle: handles, len: lens, flag: flags]

\* One op-log record of each kind, by handle and through RECENT.
EveryRecord ==
  UNION {Record("open",   {echo}, {0}, {0, 2}, {FALSE}),
         Record("run",    {NULL}, {0, SESS_RECENT}, {0}, BOOLEAN),
         Record("set",    {NULL}, {0, SESS_RECENT}, {1}, BOOLEAN),
         Record("append", {NULL}, {1, SESS_RECENT}, {1, 2}, {FALSE}),
         Record("close",  {NULL}, WireHandle, {0}, {FALSE}),
         Record("stat",   {NULL}, {0}, {0}, BOOLEAN),
         Record("flush",  {NULL}, {0}, {1}, {FALSE}),
         Record("bad",    {NULL}, {0}, {0, MaxArg + 1}, {FALSE})}
=============================================================================
