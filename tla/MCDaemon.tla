------------------------------ MODULE MCDaemon ------------------------------
(* Configurations of MCP servers whose tools' names collide, with each other, *)
(* with the suffixes they get and with a built-in tool, and servers that hang. *)
EXTENDS Daemon

Server(transport, name, list, hangs) ==
  [transport |-> transport, name |-> name, tools |-> list, hangs |-> hangs]

a == Word("a")
b == Word("b")
c == Word("c")
x == Word("x")
y == Word("y")

\* The same tool on two pages, and one that is called like its second name.
Twice == Server("stdio", <<a>>, <<<<x>>, <<x>>, <<x, Number(2)>>>>, "no")

\* "a" has a tool "b_x", "a_b" a tool "x"; "a-b" is "a_b", too.
Nested == Server("sse", <<a>>, <<<<b, x>>>>, "no")
Plain  == Server("stdio", <<a, b>>, <<<<x>>, <<y>>>>, "no")
Dashed == Server("sse", <<a, b>>, <<<<x>>>>, "no")

MCBuiltins == {<<Word("shell")>>, <<Word("mcp"), a, b, y>>}

MCConfigs ==
  {<<>>,
   <<Twice, Dashed>>,
   <<Nested, Dashed, Plain>>,
   <<Plain, Server("unknown", <<c>>, <<>>, "no")>>,
   <<Dashed, Server("streamable_http", <<c>>, <<>>, "initialize")>>,
   <<Plain, Server("stdio", <<c>>, <<>>, "initialize")>>,
   <<Dashed, Server("sse", <<c>>, <<>>, "start")>>,
   <<Server("streamable_http", <<c>>, <<>>, "list"), Plain>>}
=============================================================================
