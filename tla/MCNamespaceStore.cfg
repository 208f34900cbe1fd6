CONSTANTS
    Names = {"default", "Polaris", "user"}
    Builtins <- MCBuiltins
    BuiltinToken <- MCBuiltinToken
    BuiltinOwner = "polaris"
    Owners = {"", "alice"}
    Tokens = {"", "tok_user"}
    Empty = ""
    Limit = 1
    MaxTime = 1
    Nil = Nil

SPECIFICATION Spec

INVARIANTS
    TypeOK
    BuiltinsPresentWhenServing

