-------------------------- MODULE MCSettingsCache --------------------------
(* Small instances of SettingsCache: readers a1, a2 of the auth process,   *)
(* b1, b2 of the API process, s1, s2 of the SSR server, writers w1, w2.    *)
EXTENDS SettingsCache, TLC

CONSTANTS auth, api, ssr, a1, a2, b1, b2, s1, s2, w1, w2

HomeOf == (a1 :> auth) @@ (a2 :> auth) @@ (b1 :> api) @@ (b2 :> api)
          @@ (s1 :> ssr) @@ (s2 :> ssr) @@ (w1 :> api) @@ (w2 :> api)

HomeMap == [x \in Reader \cup Writer |-> HomeOf[x]]
============================================================================
