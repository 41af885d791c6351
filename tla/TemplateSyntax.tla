---------------------------- MODULE TemplateSyntax ----------------------------
(***************************************************************************)
(* A template in a field of one node: how the editor writes it (the        *)
(* variable picker, a drawn edge, by hand), what the validator and the     *)
(* preview say of it, and what the executor puts in the field when the     *)
(* node runs. The editor and the executor render with two environments.    *)
(*                                                                         *)
(* A template is one expression: what it refers to, the path below it and  *)
(* one filter. What it renders to is a tag: the value of a node with the   *)
(* filter's work done on it, a blank, the template itself, or an exception *)
(***************************************************************************)
EXTENDS Integers, Sequences, FiniteSets

CONSTANTS
    Step,         \* nodes of the workflow, by their place in its list
    Entry, Target,\* its start node and the node that holds the field
    LabelOf,      \* Step -> label, as far as the shorthand goes: a capitalised name or "lower"
    ShapeOf,      \* Step -> "text", "list", "object" or "number": its output's field
    Wants,        \* type of the target's field
    MaxTemplateEdits

ASSUME TemplateAssumption ==
    /\ Step \subseteq Nat /\ {Entry, Target} \subseteq Step /\ Entry # Target
    /\ MaxTemplateEdits \in Nat

VARIABLES
    link,       \* edges of the workflow
    template,   \* what the field holds
    judged,     \* the validator's answer
    shown,      \* what the preview showed
    outputs,    \* nodes with an output in the run
    inOrder,    \* _execution_order
    rendered,   \* what the field held when the target ran
    edited      \* edits made

templateVars == <<link, template, judged, shown, outputs, inOrder, rendered, edited>>

-----------------------------------------------------------------------------
(* What edges lead to from s, s included: it is in all of what holds s and  *)
(* with a node those behind it.                                             *)
Downstream(s) ==
    {y \in Step : \A S \in SUBSET Step :
        s \in S /\ (\A a \in S, b \in Step : <<a, b>> \in link => b \in S) => y \in S}

IsUpstream(source, target) == target \in Downstream(source)

(* A connection of two handles: types that match, and no way back.          *)
Compatible(s) == Wants = "any" \/ ShapeOf[s] \in {Wants, "text"}

Connects_EitherWay(s, t) == ~IsUpstream(s, t) /\ (t = Target => Compatible(s))
Connects(s, t) == ~IsUpstream(t, s) /\ (t = Target => Compatible(s))

-----------------------------------------------------------------------------
(* Templates.                                                               *)
Filters == {"none", "default", "default_to_x", "trim", "upper", "int", "json", "json_parse",
            "first", "join", "length", "keys", "split"}

(* The reference and the environment of the editor list all but one.        *)
Documented == Filters \ {"json_parse"}

(* Those the executor's environment has: the built-in ones of the engine,   *)
(* two overridden, and one of its own.                                      *)
Executable == Filters \ {"json", "keys", "split"}

Template == [by : {"picker", "edge", "hand"}, form : {"full", "shorthand", "previous", "item"},
             node : Step, path : {"field", "items"}, filter : Filters]

Full(by, n, path, filter) ==
    [by |-> by, form |-> "full", node |-> n, path |-> path, filter |-> filter]

(* What the picker lists for the target: the outputs of nodes upstream, in  *)
(* both forms, those below a list under a starred index.                    *)
PathsOf(n) == IF ShapeOf[n] = "list" THEN {"field", "items"} ELSE {"field"}

Offered(n) == n # Target /\ IsUpstream(n, Target)

-----------------------------------------------------------------------------
(* The editor's environment.                                                *)
ApiApplies(f, shape) ==
    CASE f = "first" /\ shape # "list" -> "nothing"
      [] f = "length" /\ shape = "number" -> "zero"
      [] f = "upper" /\ shape # "text" -> "itself"
      [] f = "join" /\ shape = "list" -> "joined_by_commas"
      [] f = "join" /\ shape # "list" -> "itself"
      [] f \in {"none", "default", "default_to_x"} -> "itself"
      [] OTHER -> f

(* The executor's; a missing argument or a number without a length is an    *)
(* error it does not catch.                                                 *)
RunApplies(f, shape) ==
    CASE f = "default" -> "fails"
      [] f \in {"length", "first", "join"} /\ shape = "number" -> "fails"
      [] f = "join" -> "joined"
      [] f \in {"none", "default_to_x", "json_parse"} -> "itself"
      [] OTHER -> f

Refused(t) == t.form = "previous" \/ t.path = "items" \/ t.filter = "json_parse"

(* The sample holds the outputs there are under their node ids.             *)
ApiRender(t, sample) ==
    IF Refused(t) THEN <<"syntax_error">>
    ELSE IF t.form = "item" THEN <<"blank">>
    ELSE IF t.form = "shorthand" \/ t.node \notin sample THEN <<"undefined">>
    ELSE <<"value", t.node, ApiApplies(t.filter, ShapeOf[t.node])>>

(* Labels: a map filled in the order of the nodes, so that of two nodes     *)
(* with one label the later is meant; only a capitalised label without a    *)
(* filter is looked up.                                                     *)
SameLabel(n) == {m \in Step : LabelOf[m] = LabelOf[n]}
Meant(n) == CHOOSE m \in SameLabel(n) : \A k \in SameLabel(n) : k <= m

Aliased(t) ==
    CASE t.form = "shorthand" /\ LabelOf[t.node] # "lower" /\ t.filter = "none" ->
           [t EXCEPT !.form = "full", !.node = Meant(t.node)]
      [] t.form = "previous" /\ inOrder # <<>> ->
           [t EXCEPT !.form = "full", !.node = inOrder[Len(inOrder)]]
      [] OTHER -> t

Blank(f) ==
    CASE f = "default_to_x" -> <<"x">>
      [] f = "default" -> <<"fails">>
      [] f \in {"int", "length"} -> <<"zero">>
      [] OTHER -> <<"blank">>

(* A syntax error and an unknown filter leave the template as it is.        *)
RunRender(t) ==
    LET a == Aliased(t) IN
      IF a.form = "previous" \/ a.path = "items" \/ a.filter \notin Executable THEN <<"verbatim">>
      ELSE IF a.form \in {"shorthand", "item"} \/ a.node \notin outputs THEN Blank(a.filter)
      ELSE IF RunApplies(a.filter, ShapeOf[a.node]) = "fails" THEN <<"fails">>
      ELSE <<"value", a.node, RunApplies(a.filter, ShapeOf[a.node])>>

-----------------------------------------------------------------------------
NoTemplate == [by |-> "none"]

TemplateInit ==
    /\ link = {<<Entry, Target>>} /\ template = NoTemplate
    /\ judged = "none" /\ shown = <<"none">>
    /\ outputs = {} /\ inOrder = <<>> /\ rendered = <<"none">> /\ edited = 0

Editing == outputs = {} /\ edited < MaxTemplateEdits

Hold(t) ==
    /\ Editing /\ edited' = edited + 1 /\ template' = t
    /\ judged' = "none" /\ shown' = <<"none">>
    /\ UNCHANGED <<link, outputs, inOrder, rendered>>

(* get_available_variables and expand_variable_fields.                      *)
PickVariable(n, p) ==
    /\ Offered(n) /\ p \in PathsOf(n)
    /\ \E form \in {"full", "shorthand"} :
         Hold([Full("picker", n, p, "none") EXCEPT !.form = form])

(* insert_variable: any node, filters from the reference.                   *)
InsertVariable(n, f) ==
    /\ f \in Documented
    /\ \E form \in {"full", "shorthand"} : Hold([Full("hand", n, "field", f) EXCEPT !.form = form])

(* edge_to_template: always the full form, with the transform given.        *)
MapEdge(n, f) == Hold(Full("edge", n, "field", f))

WriteByHand == \E form \in {"previous", "item"} : Hold([Full("hand", Entry, "field", "none") EXCEPT !.form = form])

(* validate_connection, for an edge that is then drawn; and one removed.    *)
DrawLink(s, t) ==
    /\ Editing /\ s # t /\ <<s, t>> \notin link /\ Connects(s, t)
    /\ link' = link \cup {<<s, t>>} /\ edited' = edited + 1
    /\ UNCHANGED <<template, judged, shown, outputs, inOrder, rendered>>

RemoveLink(s, t) ==
    /\ Editing /\ <<s, t>> \in link
    /\ link' = link \ {<<s, t>>} /\ edited' = edited + 1
    /\ UNCHANGED <<template, judged, shown, outputs, inOrder, rendered>>

(* validate_template: a name that is missing is a warning.                  *)
Validate ==
    /\ template # NoTemplate
    /\ judged' = IF Refused(template) THEN "invalid" ELSE "valid"
    /\ UNCHANGED <<link, template, shown, outputs, inOrder, rendered, edited>>

(* preview_template, with the outputs of the run as sample.                 *)
Preview ==
    /\ template # NoTemplate /\ shown' = ApiRender(template, outputs)
    /\ UNCHANGED <<link, template, judged, outputs, inOrder, rendered, edited>>

-----------------------------------------------------------------------------
(* The executor, joins left aside: they wait for more than one edge.        *)
(* Branches of a fan-out are not in the order.                              *)
Reached(n) == n = Entry \/ \E m \in outputs : <<m, n>> \in link
Siblings(n) == \E m \in outputs : <<m, n>> \in link /\ Cardinality({k \in Step : <<m, k>> \in link}) > 1

RunOther(n) ==
    /\ n # Target /\ n \notin outputs /\ Reached(n) /\ rendered = <<"none">>
    /\ outputs' = outputs \cup {n}
    /\ inOrder' = IF Siblings(n) THEN inOrder ELSE Append(inOrder, n)
    /\ UNCHANGED <<link, template, judged, shown, rendered, edited>>

RunTarget ==
    /\ template # NoTemplate /\ Reached(Target) /\ rendered = <<"none">>
    /\ rendered' = RunRender(template) /\ UNCHANGED <<link, template, judged, shown, outputs, inOrder, edited>>

TemplateNext ==
    \/ \E n \in Step : RunOther(n) \/ \E p \in {"field", "items"} : PickVariable(n, p)
    \/ \E n \in Step, f \in Filters : InsertVariable(n, f) \/ MapEdge(n, f)
    \/ \E s, t \in Step : DrawLink(s, t) \/ RemoveLink(s, t)
    \/ WriteByHand \/ Validate \/ Preview \/ RunTarget

TemplateSpec == TemplateInit /\ [][TemplateNext]_templateVars

-----------------------------------------------------------------------------
TemplateTypeOK ==
    /\ link \subseteq Step \X Step /\ template \in Template \cup {NoTemplate}
    /\ judged \in {"none", "valid", "invalid"} /\ outputs \subseteq Step
    /\ inOrder \in Seq(outputs) /\ edited \in 0 .. MaxTemplateEdits

(* What the picker offers keeps its meaning over later edits of the graph:  *)
(* in its full form a variable is, when the target runs, the output of the  *)
(* node it was picked from, or blank where that node has not run; never the *)
(* text of the template, another node's output or an exception. In the      *)
(* short form this takes a label of its own that starts with a capital. The *)
(* value a preview showed for it is the one the run renders. And edges that *)
(* were all validated make no cycle, so that no node waits for itself.      *)
Picked(t) == t.by = "picker" /\ t.path = "field"
OwnName(n) == LabelOf[n] # "lower" /\ SameLabel(n) = {n}

PickedResolves ==
    /\ \A s, t \in Step : <<s, t>> \in link => ~IsUpstream(t, s)
    /\ rendered # <<"none">> /\ Picked(template) /\ (template.form = "full" \/ OwnName(template.node)) =>
         /\ rendered = IF template.node \in outputs THEN <<"value", template.node, "itself">> ELSE <<"blank">>
         /\ shown[1] = "value" => shown = rendered
=============================================================================
