---------------------------- MODULE MCConsoleEditor ----------------------------
EXTENDS ConsoleEditor

CONSTANTS a, b

(* Names that end inside others, that share a beginning, and more than Depth.   *)
MCChars == {a, b}
MCCommands == << <<a, b, a>>, <<a, b>>, <<a, b, b>>, <<b, a, b>>, <<a, a>> >>
================================================================================
