-------------------------------- MODULE Formats --------------------------------
(***************************************************************************)
(* The modules of a prompt: which ones a configuration's format shows,     *)
(* which the fork build keeps (src/src/render/fork.rs) and which the       *)
(* timings report measures (src/src/timings.rs).  The last two expand      *)
(* $all with the same text replacement (src/src/render/mod.rs), starship   *)
(* itself by the meaning of a format.                                      *)
(*                                                                         *)
(* A format is a sequence of lexemes: "$", "{", "}", "." for all that no   *)
(* name contains, and words.  A variable's name is a sequence of words,    *)
(* since "x" right after "$a" makes it the variable "ax".                  *)
(***************************************************************************)
EXTENDS Naturals, Sequences, FiniteSets, SequencesExt

CONSTANTS
    PromptOrder,  \* PROMPT_ORDER, the modules that $all stands for
    Children,     \* the tables below [custom] and [env_var]: their full names
                  \* by the name of the module
    Pieces,       \* what a format may be put together from
    MaxPieces     \* bound of the state space

VARIABLES
    format, right_format,  \* of the configuration
    disabled               \* the modules it disables

formatsVars == <<format, right_format, disabled>>

Marks     == {"$", "{", "}", "."}
All       == <<"all">>
PlainAll  == <<"$", "all">>
BracedAll == <<"$", "{", "all", "}">>
Ordered   == {<<m>> : m \in ToSet(PromptOrder)}
Tables    == {<<c>> : c \in Children["custom"] \cup Children["env_var"]}
Live      == {<<"time">>, <<"status">>, <<"character">>}

----------------------------------------------------------------------------
(* External: what starship takes a format for.                             *)

\* The names of a format, with their places.  Without braces a name goes on
\* as far as it can.
Names(f) ==
    LET at == DOMAIN f
        word(w)   == w[1] < w[2] /\ \A k \in w[1] + 1 .. w[2] : f[k] \notin Marks
        plain(w)  == f[w[1]] = "$" /\ (w[2] = Len(f) \/ f[w[2] + 1] \in Marks)
        braced(w) == /\ w[1] > 1 /\ f[w[1] - 1] = "$" /\ f[w[1]] = "{"
                     /\ w[2] < Len(f) /\ f[w[2] + 1] = "}"
    IN  {[place |-> w, name |-> SubSeq(f, w[1] + 1, w[2])] :
            w \in {w \in at \X at : word(w) /\ (plain(w) \/ braced(w))}}

\* It reads no format with a $ that no name follows.
Readable(f) == \A k \in DOMAIN f :
    f[k] = "$" => /\ k < Len(f)
                  /\ f[k + 1] \in Marks => f[k + 1] = "{" /\ \E n \in Names(f) : n.place[1] = k + 1

ASSUME FormatsAssumption ==
    /\ DOMAIN Children = {"custom", "env_var"} /\ MaxPieces \in Nat
    /\ PromptOrder \in Seq(STRING \ (Marks \cup {"all"}))
    /\ Tables \cap (Ordered \cup {All}) = {}
    /\ \A p \in Pieces : p \in Seq(STRING) /\ Readable(p)

\* get_variables.
Variables(f) == {n.name : n \in Names(f)}

\* What a module stands for besides itself: tables that no format names.
Implicit(m, explicit) ==
    IF Len(m) = 1 /\ m[1] \in DOMAIN Children
    THEN {<<c>> : c \in Children[m[1]]} \ (explicit \cup disabled) ELSE {}

\* $custom is only its tables, $env_var is itself as well.
Modules(names, explicit) ==
    ((names \ {All, <<"custom">>}) \ disabled)
        \cup UNION {Implicit(m, explicit) : m \in names \ {All}}

\* The modules shown for f next to the format beside: $all stands for those
\* that neither names.
Shown(f, beside) ==
    LET explicit == Variables(f) \cup Variables(beside)
    IN  Modules(Variables(f) \cup (IF All \in Variables(f) THEN (Ordered \ explicit) \ disabled ELSE {}),
                explicit)

----------------------------------------------------------------------------
(* The daemon.                                                             *)

\* Mutant: what the right format names is not left out on the left.
LeftVars == Variables(format)

\* explicit_vars.
ExplicitVars == Variables(format) \cup Variables(right_format)

Dollar(m) == <<"$", m>>

\* str::replace.
Replace(text, old, new) ==
    LET found(i) == i + Len(old) <= Len(text) + 1 /\ SubSeq(text, i, i + Len(old) - 1) = old
        from[i \in 1 .. Len(text) + 1] ==
            IF i > Len(text) THEN <<>>
            ELSE IF found(i) THEN new \o from[i + Len(old)]
            ELSE <<text[i]>> \o from[i + 1]
    IN  from[1]

\* What expand_all_core puts for $all.
PutForAll(explicit) ==
    LET from[i \in 1 .. Len(PromptOrder) + 1] ==
            IF i > Len(PromptOrder) THEN <<>>
            ELSE IF <<PromptOrder[i]>> \in explicit \cup disabled THEN from[i + 1]
            ELSE Dollar(PromptOrder[i]) \o from[i + 1]
    IN  from[1]

\* expand_all_core.
ExpandAllCore(base, explicit) ==
    Replace(Replace(base, BracedAll, PutForAll(explicit)), PlainAll, PutForAll(explicit))

Holds(f, text) == text \in SubSeqs(f)

\* expand_all, which the fork renders with.
ExpandAll == IF ~Holds(format, PlainAll) THEN format
             ELSE ExpandAllCore(format, ExplicitVars)

\* Mutant: the report expands no more than the fork does.
ResolveAsRendered == ExpandAll

\* resolve_format, which the report is made with.
ResolveFormat ==
    IF ~Holds(format, PlainAll) /\ ~Holds(format, BracedAll)
    THEN format ELSE ExpandAllCore(format, ExplicitVars)

\* implicit_children.
ImplicitChildren(kind) ==
    IF kind \in {<<"custom">>, <<"env_var">>}
    THEN {<<c>> : c \in {c \in Children[kind[1]] : <<c>> \notin ExplicitVars \cup disabled}}
    ELSE {}

\* module_names, in any order: the report sorts them by time.
ModuleNames ==
    LET names    == (Variables(ResolveFormat) \cup Variables(right_format)) \ {All}
        expanded == (names \ {<<"custom">>}) \cup UNION {ImplicitChildren(n) : n \in names}
    IN  expanded \ disabled

\* Mutant: what changes with the minute is kept.
PopulateCacheTime == Variables(ExpandAll) \ ({All, <<"status">>, <<"character">>} \cup disabled)

\* populate_cache: the modules kept for later prompts under the same key.
PopulateCache == Variables(ExpandAll) \ ({All} \cup Live \cup disabled)

----------------------------------------------------------------------------
(* A configuration, piece by piece.                                        *)

FormatsInit == format = <<>> /\ right_format = <<>> /\ disabled = {}

AddLeft == \E p \in Pieces : /\ Len(format) + Len(p) <= MaxPieces
                             /\ format' = format \o p
                             /\ UNCHANGED <<right_format, disabled>>

AddRight == \E p \in Pieces : /\ right_format = <<>> /\ right_format' = p
                              /\ UNCHANGED <<format, disabled>>

Disable == \E m \in Ordered \cup Tables : /\ disabled = {} /\ disabled' = {m}
                                        /\ UNCHANGED <<format, right_format>>

FormatsNext == AddLeft \/ AddRight \/ Disable

FormatsSpec == FormatsInit /\ [][FormatsNext]_formatsVars

----------------------------------------------------------------------------
(* Properties.                                                             *)

\* A word right after $all or ${all} becomes part of the last name that is
\* put there.
RunsOn == \E all \in {PlainAll, BracedAll}, w \in {f \in ToSet(format) : f \notin Marks} :
             Holds(format, Append(all, w))

\* "The two callers MUST stay behaviorally identical or timings reports drift
\* from real prompts" (src/src/render/mod.rs:207): the report measures the
\* modules that the two formats show, whether or not the fork has expanded
\* them, save what an $all on the right stands for.
ReportsWhatIsShown ==
    ~RunsOn => ModuleNames = Shown(ExpandAll, right_format)
                                \cup Modules(Variables(right_format), ExplicitVars)

\* Expanding a format changes nothing of what it shows, and shows nothing
\* twice: what a format names comes as often as it names it.
ExpandsToTheSame ==
    ~RunsOn =>
       LET named(f) == {n \in Names(f) : n.name \in ExplicitVars \ {All}} IN
       /\ Shown(ExpandAll, right_format) = Shown(format, right_format)
       /\ Cardinality(named(ExpandAll)) = Cardinality(named(format))

\* "every module is cached except time, character, status, and the all
\* placeholder" (src/README.md:90): a prompt made from what was kept renders
\* those that change with the minute and the exit status, and of the others only
\* what ${all} and $custom stand for.
KeepsAllButTheLive ==
    ~RunsOn => LET shown == Shown(format, right_format) IN
       /\ PopulateCache \cap Live = {}
       /\ shown \ (PopulateCache \cup Live)
            \subseteq (IF Holds(format, PlainAll) THEN {} ELSE Ordered)
                        \cup UNION {Implicit(m, ExplicitVars) : m \in {<<"custom">>, <<"env_var">>}}
=============================================================================
