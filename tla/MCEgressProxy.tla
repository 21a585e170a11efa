--------------------------- MODULE MCEgressProxy ----------------------------
(* The proxy with two domains on its allowlist, one of them written with   *)
(* the dot of the root, asked for a domain with and without that dot, a    *)
(* subdomain, a name that only ends like one, its parent, the root itself  *)
(* and a name of two dots at the end.                                      *)
EXTENDS EgressProxy

CONSTANTS api, evil, github, com

MCAllowlist == { <<github, Dot, com>>, <<api, Dot>> }
MCHosts ==
    { <<github, Dot, com>>,
      <<github, Dot, com, Dot>>,
      <<api, Dot, github, Dot, com>>,
      <<evil, github, Dot, com>>,
      <<com>>,
      <<api>>,
      <<Dot>>,
      <<github, Dot, com, Dot, Dot>> }
=============================================================================
