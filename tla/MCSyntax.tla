------------------------------ MODULE MCSyntax ------------------------------
(***************************************************************************)
(* The lexer on every buffer of a few shapes, and the directory cache that *)
(* tells it which commands exist.                                          *)
(***************************************************************************)
EXTENDS PathCache

CONSTANTS Reserved, Aliases, Functions, Builtins, NameBytes, Executables, Paths, InteractiveComments

VARIABLES part,                  \* what is looked at: the buffer or the cache
          buffer, typed, shape   \* the buffer

Buffers == INSTANCE MCBuffers

\* Two directories, and the first of them once more.
MCPath == <<"bin", "local", "bin">>
MCExecutables == {<<"ls">>}
MCPaths == {<<"a">>}

MCInit ==
  /\ part \in {"buffer", "cache"} /\ Init /\ Buffers!Init
  /\ part = "buffer" => \A d \in Dirs : dirs[d].exists
  /\ part = "cache" => shape = "quotes"
MCNext ==
  /\ UNCHANGED part
  /\ \/ part = "buffer" /\ Buffers!Next /\ UNCHANGED vars
     \/ part = "cache" /\ Next /\ UNCHANGED <<buffer, typed, shape>>
MCSpec == MCInit /\ [][MCNext]_<<part, buffer, typed, shape, vars>>

-----------------------------------------------------------------------------
(***************************************************************************)
(* Quoting decides where words begin and end (tokenize).                   *)
(***************************************************************************)
QuotingDecidesWords == Buffers!QuotingDecidesWords

(***************************************************************************)
(* A span of characters shows the bytes of its token (LossyOffsets).       *)
(***************************************************************************)
SpansReadTheTokens == Buffers!SpansReadTheTokens

(***************************************************************************)
(* Which word is a command: none is behind another, redirects do not move  *)
(* it, and a separator starts over (analyze).                              *)
(***************************************************************************)
CommandsAreInPosition == Buffers!CommandsAreInPosition
=============================================================================
