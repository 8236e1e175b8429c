------------------------------- MODULE MCConsole -------------------------------
EXTENDS ConsoleStreaming
MCOutputs == {<<4, 4, 1, 2>>, <<4, 1, 1, 4, 1>>, <<4, 1, 1, 1, 1>>}
=============================================================================
