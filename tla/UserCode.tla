------------------------------- MODULE UserCode -------------------------------
(***************************************************************************)
(* What the code node's static analysis says of a piece of Python, and     *)
(* what the script that wraps it in a sandbox puts out. The analysis and   *)
(* the two sandboxes have lists of their own. A module or a name here      *)
(* stands for all that the lists treat as they treat it.                   *)
(***************************************************************************)
EXTENDS FiniteSets

Module == {"json", "urllib.parse", "time", "os"}
Name == {"len", "isinstance", "open", "AttributeError", "__name__"}
Attribute == {"append", "__class__"}
Deed == {"prints", "raises", "makes_too_much", "makes_a_cycle", "returns_a_mark", "cannot_be_parsed"}

Code == [imports : SUBSET Module, calls : SUBSET Name, names : SUBSET Name,
         attributes : SUBSET Attribute, deeds : SUBSET Deed, inputs : SUBSET {"number", "null"}]

Plain == [imports |-> {}, calls |-> {}, names |-> {}, attributes |-> {}, deeds |-> {}, inputs |-> {}]

BaseModule(m) == IF m = "urllib.parse" THEN "urllib" ELSE m

-----------------------------------------------------------------------------
(* The analysis: SandboxConfig and CodeAnalyzer.                            *)
analysed_modules == {"json", "urllib.parse"}
forbidden_builtins == {"isinstance", "open"}
forbidden_attributes == {"__class__"}
Dunder == {"__name__"}

visit_Import(c) == \E m \in c.imports : BaseModule(m) \notin analysed_modules
visit_Attribute(c) == c.attributes \cap forbidden_attributes # {}
visit_Call(c) == c.calls \cap forbidden_builtins # {}
visit_Name(c) == (c.names \cup c.calls) \cap Dunder # {}

Violates(c) ==
    "cannot_be_parsed" \in c.deeds \/ visit_Import(c) \/ visit_Attribute(c) \/ visit_Call(c) \/ visit_Name(c)

-----------------------------------------------------------------------------
(* The scripts: a namespace with the names of SAFE_BUILTINS, and an import  *)
(* that knows ALLOWED_MODULES.                                              *)
allowed_modules == analysed_modules \cup {"time"}

DockerBuiltins == {"len", "isinstance", "AttributeError"}
SubprocessBuiltins == {"len"}
Builtins(sandbox) == IF sandbox = "docker" THEN DockerBuiltins ELSE SubprocessBuiltins

Unknown(c, sandbox) == (c.names \cup c.calls) \ Builtins(sandbox)

safe_import(c) == \A m \in c.imports : BaseModule(m) \in allowed_modules

(* What exec of the code comes to. The inputs are written into the script   *)
(* as JSON, whose true, false and null are no names of Python.              *)
Executed(c, sandbox) ==
    IF "null" \in c.inputs \/ Unknown(c, sandbox) # {} THEN "NameError"
    ELSE IF ~safe_import(c) THEN "ImportError"
    ELSE IF "raises" \in c.deeds THEN "raised"
    ELSE "done"

(* A result that refers to itself cannot be dumped, and the script dies of  *)
(* it; one that is too large is replaced by an error.                       *)
Script(c, sandbox) ==
    LET how == Executed(c, sandbox) IN
    [died |-> how = "done" /\ "makes_a_cycle" \in c.deeds,
     noise |-> "prints" \in c.deeds,
     outcome |-> IF how = "done" /\ "makes_too_much" \in c.deeds THEN "OutputSizeError" ELSE how]

(* The sandbox reads the exit code, then all of stdout as one JSON document *)
(* and then its success field.                                              *)
ReadScript_LastLine(output) ==
    IF output.died THEN "ProcessError" ELSE output.outcome

ReadScript(output) ==
    IF output.died THEN "ProcessError"
    ELSE IF output.noise THEN "OutputParseError"
    ELSE output.outcome

(* The node takes a result with the mark "__error__" for an error.          *)
NodeResult(c, read) ==
    IF read # "done" THEN "error"
    ELSE IF "returns_a_mark" \in c.deeds THEN "marked" ELSE "success"
=============================================================================
