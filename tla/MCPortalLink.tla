---- MODULE MCPortalLink ----
EXTENDS PortalLink
====
