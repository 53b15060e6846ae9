---------------------------- MODULE FilterOptions ----------------------------
(***************************************************************************)
(* filter_options(options, include, exclude) of src/resources/utils.py:   *)
(* turns the comma-separated include / exclude strings of a test run into *)
(* the list of options to exclude.  A string is a sequence of tokens, the *)
(* pieces split(",") cuts it into; a token is an option name (or another  *)
(* name) with or without a space before and after it.  strip(" ") removes *)
(* the spaces at the two ends of the whole string only.                   *)
(***************************************************************************)
EXTENDS Integers, SequencesExt

CONSTANTS
  Options,     \* the names of the options argument
  Other,       \* a name that is no option
  MaxTokens,   \* bound on the comma-separated items of one string
  None         \* model value: Python None

\* the options argument, a list of the names in some order
OptionList == SetToSeq(Options)

Names == Options \cup {Other}

Token == [name : Names, lead : BOOLEAN, trail : BOOLEAN]

\* a comma-separated string, as the tokens split(",") would return
Arg == {None} \cup (BoundedSeq(Token, MaxTokens) \ {<<>>})

VARIABLES include, exclude

vars == <<include, exclude>>

Init == include \in Arg /\ exclude \in Arg

Next == UNCHANGED vars

Spec == Init /\ [][Next]_vars

-----------------------------------------------------------------------------
\* an option name as a string with no spaces
AsToken(o) == [name |-> o, lead |-> FALSE, trail |-> FALSE]

\* s.strip(" ").split(","): the spaces at the two ends of s removed
StripSplit(s) ==
  [k \in 1..Len(s) |->
     [s[k] EXCEPT !.lead = (@ /\ k # 1), !.trail = (@ /\ k # Len(s))]]

filter_options(options, inc, exc) ==
  CASE exc = None /\ inc = None -> <<>>
    [] inc = None               -> StripSplit(exc)
    [] OTHER ->
         LET include_fields == Range(StripSplit(inc))
         IN SelectSeq([k \in 1..Len(options) |-> AsToken(options[k])],
                      LAMBDA t : t \notin include_fields)

-----------------------------------------------------------------------------
(***************************************************************************)
(* The docstring: include is "a comma-separated string of options that    *)
(* should be included (other options will be automatically excluded)".    *)
(* So no option named in include is among the options returned for       *)
(* exclusion.                                                             *)
(***************************************************************************)
IncludedNeverExcluded ==
  include # None =>
    \A k \in 1..Len(include) :
      AsToken(include[k].name) \notin
        Range(filter_options(OptionList, include, exclude))
=============================================================================
