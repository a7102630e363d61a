----------------------------- MODULE ConfigParser -----------------------------
(***************************************************************************)
(* config_file_parser of src/src/config_file_parser.cpp and                *)
(* src/krb/config_file_parser.hpp.  The object keeps groups, a map from a *)
(* group type to a stack of callbacks, and group_stack, the types of the  *)
(* groups being parsed; parse() runs a boost::spirit grammar whose        *)
(* semantic actions (g_push, g_append, g_parse) call push_group() and     *)
(* parse_group(), which call the callbacks' entry() and exit().           *)
(*                                                                         *)
(* A file is read one token per step, whitespace and comments left out:  *)
(* a var_name (Name), the rest of an assignment line "= value eol"        *)
(* (Assign, its value a label), "{", "}" and the end of the file.  The    *)
(* grammar needs two tokens to choose: after a var_name it tries the      *)
(* assignment first, whose action fires only when the line is complete,   *)
(* and then the group, whose g_push fires as soon as the var_name is      *)
(* matched.  Spirit does not undo actions when it backtracks, and every   *)
(* failed alternative leaves text the enclosing rules cannot match, so    *)
(* the first token no rule accepts ends parse() with false.               *)
(*                                                                         *)
(* The callbacks are the program's: a callback registered for type t      *)
(* pushes, in its entry(), a callback for each type of Child(t), and pops *)
(* them in its exit(), as the header prescribes (vhost and location).     *)
(* A callback is represented by the type it was registered for.           *)
(***************************************************************************)
EXTENDS Naturals, Sequences, SequencesExt

CONSTANTS
    Parent, Sub,    \* two group types: Parent's callbacks register Sub's
    Labels,         \* the values of assignments
    MaxDepth,       \* bound on group nesting in a file
    MaxContent,     \* bound on the assignments of one group
    MaxParses,      \* bound on parse() calls on one object
    MaxCallbacks    \* bound on the callbacks the program registers for a type

Types == {Parent, Sub}
None == "none"

\* no exit() call yet
NoExit == [looked |-> None, group |-> None, content |-> <<>>, own |-> <<>>]

VARIABLES
    groups,         \* the map: its keys are DOMAIN groups
    group_stack,
    strstack,       \* parse()'s stack of group contents
    cpc,            \* "idle", "parsing" or "crashed"
    opened,         \* the groups whose "{" the grammar has matched
    pending,        \* a var_name read, its rule not chosen yet
    own,            \* history: the assignments read directly in each opened group
    lastexit,       \* history: the last exit() call
    parses,
    parsed          \* what the last parse() returned (FALSE before the first)

cpvars == <<groups, group_stack, strstack, cpc, opened, pending, own, lastexit,
            parses, parsed>>

Child(t) == IF t = Parent THEN {Sub} ELSE {}

Top(s) == s[Len(s)]
Pop(s) == SubSeq(s, 1, Len(s) - 1)

\* groups[name].push(cb): operator[] inserts the key when it is absent
PushCb(g, name) ==
    IF name \in DOMAIN g THEN [g EXCEPT ![name] = Append(@, name)]
    ELSE g @@ (name :> <<name>>)

\* pop_group_callback(name): nothing for an absent key or an empty stack
PopCb(g, name) ==
    IF name \notin DOMAIN g \/ g[name] = <<>> THEN g
    ELSE [g EXCEPT ![name] = Pop(@)]

\* cb->entry(): register the callbacks of the child types
Entry(g, cb) == FoldSet(LAMBDA c, h : PushCb(h, c), g, Child(cb))

\* cb->exit(): pop them again
Exit(g, cb) == FoldSet(LAMBDA c, h : PopCb(h, c), g, Child(cb))

\* the size of t's callback stack
Registered(t) == IF t \in DOMAIN groups THEN Len(groups[t]) ELSE 0

\* groups.find(t) succeeds but the stack is empty: top() is undefined
EmptyTop(t) == t \in DOMAIN groups /\ groups[t] = <<>>

\* the end of a parse() call
Return(v) ==
    /\ cpc' = "idle" /\ parsed' = v
    /\ opened' = <<>> /\ pending' = None /\ strstack' = <<>> /\ own' = <<>>

\* a top() on an empty stack: the process crashes
Crash ==
    /\ cpc' = "crashed"
    /\ UNCHANGED <<groups, group_stack, strstack, opened, pending, own, lastexit,
                   parses, parsed>>

-----------------------------------------------------------------------------

Init ==
    /\ groups = <<>> /\ group_stack = <<>>
    /\ strstack = <<>> /\ own = <<>> /\ opened = <<>>
    /\ cpc = "idle" /\ pending = None
    /\ lastexit = NoExit /\ parses = 0 /\ parsed = FALSE

\* push_group_callback(name, cb), called by the program outside parse()
PushGroupCallback(name) ==
    /\ cpc = "idle"
    /\ Registered(name) < MaxCallbacks
    /\ groups' = PushCb(groups, name)
    /\ UNCHANGED <<group_stack, strstack, cpc, opened, pending, own, lastexit,
                   parses, parsed>>

\* pop_group_callback(name), called by the program outside parse()
PopGroupCallback(name) ==
    /\ cpc = "idle"
    /\ groups' = PopCb(groups, name)
    /\ UNCHANGED <<group_stack, strstack, cpc, opened, pending, own, lastexit,
                   parses, parsed>>

\* parse(path): real_parse returns false when the file cannot be opened
Parse ==
    /\ cpc = "idle" /\ parses < MaxParses
    /\ parses' = parses + 1
    /\ \/ Return(FALSE)
       \/ cpc' = "parsing" /\ UNCHANGED parsed
    /\ UNCHANGED <<groups, group_stack, strstack, opened, pending, own, lastexit>>

\* a var_name: which rule matches it depends on the next token
ReadName(n) ==
    /\ cpc = "parsing" /\ pending = None
    /\ pending' = n
    /\ UNCHANGED <<groups, group_stack, strstack, cpc, opened, own, lastexit,
                   parses, parsed>>

\* g_append: an assignment inside a group appends to strstack.top()
GAppend(l) ==
    /\ cpc = "parsing" /\ pending # None /\ opened # <<>>
    /\ Len(Top(own)) < MaxContent
    /\ strstack' = [strstack EXCEPT ![Len(strstack)] = Append(@, l)]
    /\ own' = [own EXCEPT ![Len(own)] = Append(@, l)]
    /\ pending' = None
    /\ UNCHANGED <<groups, group_stack, cpc, opened, lastexit, parses, parsed>>

\* mutant: push_group() returns for an unknown type before pushing it
PushGroupKnownOnly(n) ==
    IF n \notin DOMAIN groups
      THEN UNCHANGED <<groups, group_stack>>
      ELSE /\ group_stack' = Append(group_stack, n)
           /\ IF EmptyTop(n) THEN UNCHANGED groups
                             ELSE groups' = Entry(groups, Top(groups[n]))

\* push_group(n): push n on group_stack and, for a known type, call
\* entry() on the top callback
PushGroup(n) ==
    /\ group_stack' = Append(group_stack, n)
    /\ IF n \notin DOMAIN groups \/ EmptyTop(n) THEN UNCHANGED groups
                                               ELSE groups' = Entry(groups, Top(groups[n]))

\* g_push: strstack.push(""), then push_group(n)
GPush(n) ==
    /\ strstack' = Append(strstack, <<>>)
    /\ PushGroup(n)

\* "{" after a var_name: the group rule's g_push
Open ==
    /\ cpc = "parsing" /\ pending # None /\ Len(opened) < MaxDepth
    /\ IF EmptyTop(pending) THEN Crash
       ELSE /\ GPush(pending)
            /\ opened' = Append(opened, pending)
            /\ own' = Append(own, <<>>)
            /\ pending' = None
            /\ UNCHANGED <<cpc, lastexit, parses, parsed>>

\* a token after a var_name that is neither "{" nor, inside a group, an
\* assignment: g_push has fired for the var_name, the group rule fails
\* at its "{", and so does the parse
GroupFails(tok) ==
    /\ cpc = "parsing" /\ pending # None
    /\ tok \in {"close", "eof"} \/ (tok = "assign" /\ opened = <<>>) \/ tok \in Types
    /\ IF EmptyTop(pending) THEN Crash
       ELSE /\ PushGroup(pending)
            /\ Return(FALSE)
            /\ UNCHANGED <<lastexit, parses>>

\* g_parse at "}": parse_group(strstack.top()), then strstack.pop();
\* parse_group() calls exit() on the top callback of the top group type
\* with the group's contents and pops group_stack
Close ==
    /\ cpc = "parsing" /\ pending = None /\ opened # <<>>
    /\ IF group_stack # <<>> /\ EmptyTop(Top(group_stack)) THEN Crash
       ELSE /\ IF group_stack = <<>> THEN UNCHANGED <<group_stack, groups, lastexit>>
               ELSE LET t == Top(group_stack) IN
                    /\ group_stack' = Pop(group_stack)
                    /\ IF t \in DOMAIN groups
                         THEN /\ groups' = Exit(groups, Top(groups[t]))
                              /\ lastexit' = [looked |-> t, group |-> Top(opened),
                                              content |-> Top(strstack), own |-> Top(own)]
                         ELSE UNCHANGED <<groups, lastexit>>
            /\ strstack' = Pop(strstack)
            /\ opened' = Pop(opened) /\ own' = Pop(own)
            /\ UNCHANGED <<cpc, pending, parses, parsed>>

\* a token no rule can start with where it stands ("=" or "{" without a
\* var_name, "}" at the top level, the end inside a group): parse() is
\* false
Stop(tok) ==
    /\ cpc = "parsing" /\ pending = None
    /\ tok \in {"assign", "open"} \/ (tok = "close" /\ opened = <<>>)
       \/ (tok = "eof" /\ opened # <<>>)
    /\ Return(FALSE)
    /\ UNCHANGED <<groups, group_stack, lastexit, parses>>

\* the end of the file after complete groups: the parse is full
Finish ==
    /\ cpc = "parsing" /\ pending = None /\ opened = <<>>
    /\ Return(TRUE)
    /\ UNCHANGED <<groups, group_stack, lastexit, parses>>

\* ~config_file_parser() deletes every callback; the program, or the
\* process restarted after a crash, constructs a new parser
Destroy ==
    /\ cpc \in {"idle", "crashed"}
    /\ groups' = <<>> /\ group_stack' = <<>>
    /\ strstack' = <<>> /\ own' = <<>> /\ opened' = <<>>
    /\ cpc' = "idle" /\ pending' = None
    /\ lastexit' = NoExit /\ parses' = 0 /\ parsed' = FALSE

Next ==
    \/ \E n \in Types : PushGroupCallback(n) \/ PopGroupCallback(n)
    \/ Parse
    \/ \E n \in Types : ReadName(n)
    \/ \E l \in Labels : GAppend(l)
    \/ Open
    \/ \E tok \in Types \cup {"close", "eof", "assign"} : GroupFails(tok)
    \/ Close
    \/ \E tok \in {"assign", "open", "close", "eof"} : Stop(tok)
    \/ Finish
    \/ Destroy

Spec == Init /\ [][Next]_cpvars

-----------------------------------------------------------------------------
(* Properties                                                              *)

\* Every exit() call is made on a callback of the type of the group whose
\* "}" was just matched, and is handed exactly the assignments written
\* directly inside that group, across nested groups, unknown group types,
\* parses abandoned part-way that leave types on group_stack, and later
\* parses on the same object (the "should never happen" of parse_group).
ExitGetsOwnGroup ==
    lastexit # NoExit =>
        lastexit.looked = lastexit.group /\ lastexit.content = lastexit.own

\* The parser never calls top() on an empty callback stack: a group type
\* whose callbacks have all been popped is treated like an unknown type,
\* which push_group() says it silently refuses to parse.
NoTopOfEmptyStack == cpc # "crashed"

=============================================================================
