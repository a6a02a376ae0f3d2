------------------------------ MODULE MCSpoolC ------------------------------
(* Constants for model checking spoolc.                                    *)
EXTENDS SpoolC

CONSTANTS p1, p2, b1, b2, m1, m2, raster, text

Record(op, fmts, jobs, lens, flags) ==
  [op: {op}, fmt: fmts, job: jobs, len: lens, flag: flags]

\* One batch record of each kind, by id and through RECENT.
EveryRecord ==
  UNION {Record("submit", {raster, text}, {0}, {0, 2}, {FALSE}),
         Record("render", {NULL}, {0, 1}, {0}, {FALSE}),
         Record("append", {NULL}, {0, SPOOL_RECENT}, {1, 2}, {FALSE}),
         Record("cancel", {NULL}, {0, SPOOL_RECENT}, {0}, {FALSE}),
         Record("status", {NULL}, {0}, {0}, BOOLEAN),
         Record("other",  {NULL}, {0}, {0, MaxArg + 1}, {FALSE})}
=============================================================================
