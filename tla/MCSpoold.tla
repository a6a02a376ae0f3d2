------------------------------ MODULE MCSpoold ------------------------------
(* Constants for model checking spoold.                                    *)
EXTENDS Spoold

CONSTANTS p1, p2, b1, b2, raster, text

\* One way to send each operation.
EveryOp ==
  UNION {Request("submit",  {raster}, {0}, {1}, {FALSE}),
         Request("submit",  {text}, {0}, {0}, {FALSE}),
         Request("render",  {NULL}, {0}, {0}, {FALSE}),
         Request("append",  {NULL}, {SPOOL_RECENT}, {1}, {FALSE}),
         Request("cancel",  {NULL}, {1}, {0}, {FALSE}),
         Request("status",  {NULL}, {0}, {0}, {TRUE}),
         Request("recycle", {NULL}, {0}, {0}, {FALSE}),
         Request("dup",     {NULL}, {0}, {0}, {FALSE}),
         Request("flush",   {NULL}, {0}, {0}, {FALSE}),
         Request("bad",     {NULL}, {0}, {1, MaxArg + 1}, {FALSE})}
=============================================================================
