------------------------------ MODULE CfgTools ------------------------------
(***************************************************************************)
(* cfgapply.exe and regimport.exe: each builds one profile, prints it and  *)
(* frees it.  cfgapply reads a bundle; regimport loads a provider, which   *)
(* reads a bundle, environment variables or a registry key.  What these    *)
(* hold is drawn as it is read.                                            *)
(***************************************************************************)
EXTENDS CfgCore

VARIABLES
  stage,  \* where wmain, the provider or the core is
  held    \* what is loaded, open or allocated besides the profile

toolVars == <<stage, held>>

Resource == {"lib", "file", "buf", "key"}

ToolInit(first) == stage = first /\ held = {}

Go(where, with) == stage' = where /\ held' = with

\* The provider or CfgOpenFile returns an error.
Failed(with) == Go("failed", with) /\ UNCHANGED cfgVars

-----------------------------------------------------------------------------
(* regimport: the library named by the kind of source.                     *)

\* Wrong usage, an unknown source, or no such library: exit.
LoadLibrary ==
  /\ stage = "load"
  /\ Go("exit", held) \/ Go("resolve", held \cup {"lib"})
  /\ UNCHANGED cfgVars

\* A library without the symbol is unloaded again.
GetProvider ==
  /\ stage = "resolve"
  /\ Go("failed", held) \/ \E kind \in {"open", "env", "reg"} : Go(kind, held)
  /\ UNCHANGED cfgVars

-----------------------------------------------------------------------------
(* CfgOpenFile.                                                            *)

OpenFile ==
  /\ stage = "open"
  /\ Failed(held) \/ (Go("read", held \cup {"file"}) /\ UNCHANGED cfgVars)

\* Variant: a file whose size is not known is not closed.
FileStaysOpen ==
  /\ stage = "read"
  /\ \/ Failed(held)
     \/ /\ Go("parse", (held \ {"file"}) \cup {"buf"})
        /\ NotParsed \/ \E b \in Bundle : ParseHeader(b)

\* The size is not known or there is no memory for so much; or the file is read and
\* closed.
ReadFile ==
  /\ stage = "read"
  /\ \/ Failed(held \ {"file"})
     \/ /\ Go("parse", (held \ {"file"}) \cup {"buf"})
        /\ NotParsed \/ \E b \in Bundle : ParseHeader(b)

ParseFile ==
  /\ stage = "parse"
  /\ \/ prof = NULL /\ Failed(held \ {"buf"})
     \/ prof # NULL /\ ParseEntry /\ UNCHANGED toolVars
     \/ prof # NULL /\ Parsed /\ Go("print", held \ {"buf"}) /\ UNCHANGED cfgVars

-----------------------------------------------------------------------------
(* The other providers.  The tools look at names only, so that the texts   *)
(* of all values are alike.                                                *)

\* CfgNew; so many names or registry values are to be gone through, at most MaxEntries
\* to bound them, which nothing in the code does.
CfgNew == prof' = <<>> /\ due' \in 0 .. MaxEntries /\ UNCHANGED <<store, rest, fault>>

AddAny(type) ==
  /\ due > 0
  /\ due' = due - 1
  /\ \E n \in Name : CfgAdd([name |-> n, type |-> type, text |-> <<>>])
  /\ UNCHANGED <<store, rest, fault>>

NewEnv ==
  /\ stage = "env"
  /\ Failed(held) \/ (CfgNew /\ Go("names", held))

\* A variable that is not set, or too long, or that there is no memory for, is
\* passed over.
ReadEnv ==
  /\ stage = "names"
  /\ \/ AddAny("str") /\ UNCHANGED toolVars
     \/ due = 0 /\ Go("print", held) /\ UNCHANGED cfgVars

OpenKey ==
  /\ stage = "reg"
  /\ Failed(held) \/ (Go("new", held \cup {"key"}) /\ UNCHANGED cfgVars)

NewReg ==
  /\ stage = "new"
  /\ Failed(held \ {"key"}) \/ (CfgNew /\ Go("values", held))

\* A value that is no string or cannot be read is passed over; of a string as many
\* characters are copied as it has bytes, and 128 fit.
ReadKey ==
  /\ stage = "values"
  /\ \/ AddAny("wstr") /\ UNCHANGED toolVars
     \/ due > 0 /\ Crash("text") /\ UNCHANGED toolVars
     \/ due = 0 /\ Go("print", held \ {"key"}) /\ UNCHANGED cfgVars

\* Somebody deletes the key: RegEnumValueW fails from now on, never with
\* ERROR_NO_MORE_ITEMS.
DeleteKey ==
  /\ stage = "values"
  /\ Go("deleted", held)
  /\ UNCHANGED cfgVars

-----------------------------------------------------------------------------
\* CfgFormatLabel copies each name into 32 bytes; then the profile is freed, and
\* the library.
Report ==
  /\ stage = "print"
  /\ IF \E i \in 1 .. Len(prof) : prof[i].name.len >= NormSize
     THEN Crash("label") /\ UNCHANGED toolVars
     ELSE CfgFree /\ Go("exit", held \ {"lib"}) /\ UNCHANGED <<store, fault>>

GiveUp ==
  /\ stage = "failed"
  /\ Go("exit", held \ {"lib"})
  /\ UNCHANGED cfgVars

ToolDone == fault # "none" \/ stage = "exit"

ToolWork ==
  \/ LoadLibrary \/ GetProvider \/ OpenFile \/ ReadFile \/ ParseFile
  \/ NewEnv \/ ReadEnv \/ OpenKey \/ NewReg \/ ReadKey \/ Report \/ GiveUp

ToolNext == ~ToolDone /\ (ToolWork \/ DeleteKey)
=============================================================================
