----------------------------- MODULE MCHttpRequest -----------------------------
(***************************************************************************)
(* HttpRequest with every route and method, token, query string, media     *)
(* type and kind of path, and with bodies around a limit of two bytes      *)
(* whose length is declared, or is not (-1).                               *)
(***************************************************************************)
EXTENDS HttpRequest

Bodiless ==
    [route : DOMAIN Methods \cup {"unmatched"}, method : {"GET", "POST", "DELETE", "PUT"},
     token : {"none", "other", "read", "write"}, query : {"none", "format", "unparsable", "other"},
     media : {"json", "other"}, path : {"code", "slash", "empty code"},
     declared : {0}, length : {0}, content : {"broken"}]

WithBody ==
    {q \in [route : {"dataset", "query"}, method : {"POST"},
            token : {"read", "write"}, query : {"none", "format"}, media : {"json"},
            path : {"code", "empty code"}, declared : {-1} \cup 1..4, length : 1..4,
            content : {"good", "broken", "invalid"}] : q.declared \in {-1, q.length}}

MCRequest == Bodiless \cup WithBody
=============================================================================
