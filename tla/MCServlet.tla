----------------------------- MODULE MCServlet -----------------------------
(* Two connections, three packets: an event as an XML notice of two units, *)
(* an engine event of one, a client's broadcast, and a server's.           *)
EXTENDS Servlet

kind(type, content, len, pieces) ==
    [type |-> type, content |-> content, len |-> len, pieces |-> pieces]

MCKinds ==
    {kind("CLIENT_EVENT", "XML", 2, 1), kind("CLIENT_EVENT", "EVENT", 1, 0),
     kind("BC_CLIENT", "other", 1, 0), kind("BC_SERVER", "other", 1, 0)}
=============================================================================
