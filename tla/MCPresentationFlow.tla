-------------------------- MODULE MCPresentationFlow --------------------------
EXTENDS PresentationFlow

\* The native calls the handlings of a scan can make.
ScanCalls == Handling \X {"initiate", "vp", "mdoc"}
=============================================================================
