---------------------------- MODULE MCPwmPage ----------------------------
EXTENDS PwmPage

=============================================================================
