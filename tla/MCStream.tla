---- MODULE MCStream ----
EXTENDS ModbusStream
MCAnswers == <<3, 2>>
====
