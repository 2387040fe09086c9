---------------------------- MODULE MCToolSources ----------------------------
EXTENDS ToolSources

MCMcpTools == <<{"search"}, {"open"}>>
MCStatuses == {"INITIATED", "ACTIVE", "SUSPENDED"}
MCCatalogs == {{"mail"}, {"mail", "search"}}
=============================================================================
