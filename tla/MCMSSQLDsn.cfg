\* The parse at the start of on_open, against the grammar of spec.md 6.
\* on_open parses once and goes on to connect: the parse stops there.
CONSTANTS
  SizeMod = 256
  DefaultDriver <- MCDefaultDriver
  Blank = {" "}
  Parts <- MCParts
  Inputs <- MCNoInputs
  NotYet = NotYet
  NotGrammar = NotGrammar
INIT Init
NEXT Parse
INVARIANT GrammarParsed
CHECK_DEADLOCK FALSE
