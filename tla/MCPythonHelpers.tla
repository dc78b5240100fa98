-------------------------- MODULE MCPythonHelpers --------------------------
EXTENDS PythonHelpers

MCWords == {"", "read", "grep", "sg", "t", "u", "s", "json", "asyncio", "read_text", "path",
            "offset", "pattern", "file", "query", "a", "b", "c"}

Tool(name, py, params, req, nul) ==
    [name |-> name, py |-> py, params |-> params, req |-> req, nul |-> nul,
     structured |-> FALSE]
Structured(d) == [d EXCEPT !.structured = TRUE]

Read      == Tool("read", "", <<"path", "offset">>, {"path"}, {})
Grep      == Tool("grep", "", <<"pattern", "path">>, {"pattern"}, {})
\* Overrides of builtin tools.
ReadText  == Structured(Tool("read", "read_text", <<"path">>, {"path"}, {}))
ReadFile  == Tool("read", "", <<"file", "path">>, {"file"}, {})
Search    == Structured(Tool("grep", "", <<"query", "pattern">>, {"query"}, {"query"}))
\* Custom tools, some of them versions of one another.
Plain     == Tool("t", "", <<"a", "b", "c">>, {"a", "b"}, {})
Swapped   == Structured(Tool("t", "", <<"b", "a", "c">>, {"a", "b"}, {}))
Nullable  == Tool("t", "s", <<"a", "b", "c">>, {"a", "b"}, {"a"})
TakesName == Tool("u", "t", <<"a">>, {"a"}, {})
TakesRead == Tool("u", "read", <<"a">>, {}, {})
Json      == Tool("u", "json", <<"a">>, {}, {"a"})
Asyncio   == Tool("u", "asyncio", <<"a">>, {"a"}, {})
Sg        == Tool("sg", "", <<"pattern", "path">>, {"pattern"}, {})

MCRegistries ==
    {{Read, Grep, Plain}, {Read, Swapped}, {ReadText, Nullable, TakesName},
     {ReadFile, Search}, {Plain, TakesName}, {Read, TakesRead}, {Json, Nullable},
     {Asyncio, Plain},
     {Sg, Grep}, {Structured(Sg)}, {}}
=============================================================================
