-------------------------- MODULE MCDesktopSession --------------------------
\* Two projects, of which only the first exists at the start.
EXTENDS DesktopSession

MCProjects == {"a", "b"}
MCExisting == {"a"}
=============================================================================
