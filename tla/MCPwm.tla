------------------------------- MODULE MCPwm -------------------------------
EXTENDS Pwm
=============================================================================
