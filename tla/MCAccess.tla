----------------------------- MODULE MCAccess -----------------------------
EXTENDS Access

CONSTANTS page, typist, visitor

\* The page and a person who mistypes share an address.
MCAt == [c \in {page, typist, visitor, "host"} |->
           IF c = "host" THEN "loopback" ELSE IF c = visitor THEN "cafe" ELSE "home"]
=============================================================================
