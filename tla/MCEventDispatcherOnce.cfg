CONSTANTS
    Callbacks = {1, 2}
    Priorities = {0, 1, 2}
    MaxDepth = 1
SPECIFICATION Spec
PROPERTY OnceCalledOnce
