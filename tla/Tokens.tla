------------------------------- MODULE Tokens -------------------------------
(***************************************************************************)
(* The tokens that are always spelled alike, src/src/scanner.h.            *)
(***************************************************************************)
LOCAL INSTANCE TLC

Punctuation ==
    ("(" :> "LEFT_PAREN") @@ (")" :> "RIGHT_PAREN") @@ ("{" :> "LEFT_BRACE")
    @@ ("}" :> "RIGHT_BRACE") @@ ("[" :> "LEFT_BRACKET") @@ ("]" :> "RIGHT_BRACKET")
    @@ ("," :> "COMMA") @@ ("." :> "DOT") @@ ("-" :> "MINUS") @@ ("%" :> "PERCENT")
    @@ ("+" :> "PLUS") @@ (";" :> "SEMICOLON") @@ ("/" :> "SLASH") @@ ("*" :> "STAR")
    @@ ("&" :> "AMPER") @@ ("&&" :> "AMPER_AMPER") @@ ("|" :> "PIPE") @@ ("||" :> "PIPE_PIPE")
    @@ ("!" :> "BANG") @@ ("!=" :> "BANG_EQUAL") @@ ("=" :> "EQUAL") @@ ("==" :> "EQUAL_EQUAL")
    @@ (">" :> "GREATER") @@ (">=" :> "GREATER_EQUAL") @@ ("<" :> "LESS") @@ ("<=" :> "LESS_EQUAL")

Keywords ==
    [class |-> "CLASS", const |-> "CONST", def |-> "DEF", else |-> "ELSE", false |-> "FALSE",
     if |-> "IF", let |-> "LET", null |-> "NULL", return |-> "RETURN", super |-> "SUPER",
     this |-> "THIS", true |-> "TRUE", while |-> "WHILE"]
=============================================================================
