SPECIFICATION Spec
CONSTANTS
    EP = 2
    Local = 2
    Tokens = 1
    TopK = 1
    Layers = 1
    Forwards = 1
    Routings <- OneSidedRoutings
INVARIANT OutputSeesPayload
