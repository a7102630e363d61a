\* A config_file_parser whose parent-type callbacks register the sub-type's
\* callbacks in entry() and pop them in exit(), parsing files of groups
\* nested up to two deep: a group whose type's callbacks have all been
\* popped makes push_group() or parse_group() call top() on an empty stack.
CONSTANTS
    Parent = P
    Sub = S
    Labels = {x}
    MaxDepth = 2
    MaxContent = 1
    MaxParses = 2
    MaxCallbacks = 1
SPECIFICATION Spec
INVARIANT NoTopOfEmptyStack
